---- MODULE Spec2Model ----
(***************************************************************************)
(* Room auto planner (src/src/Room/autoPlanner.ts): the min-cut rampart    *)
(* solver (Dinic on a split-vertex tile graph), dead-end pruning, the      *)
(* exposure flood of calculate, and the cluster placement of buildLayout.  *)
(*                                                                         *)
(* The room is ROOM_SIZE x ROOM_SIZE.  The program fixes ROOM_SIZE = 50;   *)
(* the model keeps every formula of the code in terms of ROOM_SIZE and     *)
(* ROOM_MAX_INDEX and checks it on a small room.                           *)
(***************************************************************************)
EXTENDS Integers, Sequences, FiniteSets, TLC

\* ------------------------------------------------------------------ bounds
ROOM_SIZE == 7
MaxWalls == 1
MaxCoords == 2
ClusterRounds == 1
MantissaBits == 24

\* ------------------------------------------------------- program constants
UNWALKABLE == -1
NORMAL == 0
PROTECTED == 1
TO_EXIT == 2
EXIT == 3
EXPOSED == 5
RAMPART_MIN == 9
TERRAIN_MASK_WALL == 1
infinity == 1000000
MAX_VALUE == 2147483647
ExpandLevels == 3

SURROUND_OFFSETS ==
  << <<0, -1>>, <<-1, -1>>, <<-1, 0>>, <<-1, 1>>,
     <<0, 1>>, <<1, 1>>, <<1, 0>>, <<1, -1>> >>

ROOM_MAX_INDEX == ROOM_SIZE - 1
GRAPH_VERTEX_COUNT == 2 * ROOM_SIZE * ROOM_SIZE + 2
SOURCE_VERTEX == 2 * ROOM_SIZE * ROOM_SIZE
SINK_VERTEX == 2 * ROOM_SIZE * ROOM_SIZE + 1
TOP_OFFSET == 0
BOT_OFFSET == ROOM_SIZE * ROOM_SIZE

Coord == 0 .. ROOM_MAX_INDEX
Tiles == Coord \X Coord
Vertices == 0 .. (GRAPH_VERTEX_COUNT - 1)
FullBounds == [x1 |-> 0, y1 |-> 0, x2 |-> ROOM_MAX_INDEX, y2 |-> ROOM_MAX_INDEX]

Min(a, b) == IF a < b THEN a ELSE b

\* Evaluation order only: TLC passes operator arguments unevaluated, and a long
\* loop would pile up pending updates; Force(v, e) evaluates v, then gives e.
Force(v, e) == IF v = v THEN e ELSE e

\* terrainData.get(x, y): the set `walls` holds the wall tiles of the room.
terrainGet(walls, x, y) == IF <<x, y>> \in walls THEN TERRAIN_MASK_WALL ELSE 0

\* roomArray[x]?.[y]: a read outside the grid is undefined, which equals no tag.
tagAt(room, x, y) == IF <<x, y>> \in Tiles THEN room[<<x, y>>] ELSE -2

\* --------------------------------------------------------------- classifier
\* Faulty variant: the test for the bounds' edge comes after the test for
\* the room's edge, so TO_EXIT overwrites EXIT.
markWalkableBoundsLast(walls, b) ==
  [t \in Tiles |->
     LET x == t[1]
         y == t[2]
     IN IF x >= b.x1 /\ x <= b.x2 /\ y >= b.y1 /\ y <= b.y2
           /\ terrainGet(walls, x, y) # TERRAIN_MASK_WALL
        THEN IF x = b.x1 \/ y = b.y1 \/ x = b.x2 \/ y = b.y2
             THEN TO_EXIT
             ELSE IF x = 0 \/ y = 0 \/ x = ROOM_MAX_INDEX \/ y = ROOM_MAX_INDEX
                  THEN EXIT
                  ELSE NORMAL
        ELSE UNWALKABLE]

\* First pass of createRoom2DArrayFromTerrain: tiles of the bounds that are
\* not walls become NORMAL, TO_EXIT on the bounds' edge, EXIT on the room's.
markWalkable(walls, b) ==
  [t \in Tiles |->
     LET x == t[1]
         y == t[2]
     IN IF x >= b.x1 /\ x <= b.x2 /\ y >= b.y1 /\ y <= b.y2
           /\ terrainGet(walls, x, y) # TERRAIN_MASK_WALL
        THEN IF x = 0 \/ y = 0 \/ x = ROOM_MAX_INDEX \/ y = ROOM_MAX_INDEX
             THEN EXIT
             ELSE IF x = b.x1 \/ y = b.y1 \/ x = b.x2 \/ y = b.y2
                  THEN TO_EXIT
                  ELSE NORMAL
        ELSE UNWALKABLE]

\* Faulty variant: only the edge tile straight across is read, not the
\* two diagonal ones.
markNearExitStraight(room2D) ==
  [t \in Tiles |->
     LET x == t[1]
         y == t[2]
         inner(k) == k >= 1 /\ k < ROOM_MAX_INDEX
     IN IF \/ (x = 1 /\ inner(y) /\ room2D[<<0, y>>] = EXIT)
           \/ (x = ROOM_MAX_INDEX - 1 /\ inner(y) /\ room2D[<<ROOM_MAX_INDEX, y>>] = EXIT)
           \/ (y = 1 /\ inner(x) /\ room2D[<<x, 0>>] = EXIT)
           \/ (y = ROOM_MAX_INDEX - 1 /\ inner(x) /\ room2D[<<x, ROOM_MAX_INDEX>>] = EXIT)
        THEN TO_EXIT
        ELSE room2D[t]]

\* Second pass: (1,y), (48,y), (x,1), (x,48) next to an EXIT become TO_EXIT,
\* whatever they were.  The pass reads only room-edge tiles and writes only
\* inner tiles, so the order of its writes does not matter.
markNearExit(room2D) ==
  [t \in Tiles |->
     LET x == t[1]
         y == t[2]
         inner(k) == k >= 1 /\ k < ROOM_MAX_INDEX
         exitCol(c) == room2D[<<c, y - 1>>] = EXIT \/ room2D[<<c, y>>] = EXIT
                       \/ room2D[<<c, y + 1>>] = EXIT
         exitRow(r) == room2D[<<x - 1, r>>] = EXIT \/ room2D[<<x, r>>] = EXIT
                       \/ room2D[<<x + 1, r>>] = EXIT
     IN IF \/ (x = 1 /\ inner(y) /\ exitCol(0))
           \/ (x = ROOM_MAX_INDEX - 1 /\ inner(y) /\ exitCol(ROOM_MAX_INDEX))
           \/ (y = 1 /\ inner(x) /\ exitRow(0))
           \/ (y = ROOM_MAX_INDEX - 1 /\ inner(x) /\ exitRow(ROOM_MAX_INDEX))
        THEN TO_EXIT
        ELSE room2D[t]]

createRoom2DArrayFromTerrain(walls, b) == markNearExit(markWalkable(walls, b))

\* Faulty variant: x and y swapped.
positionOfVertexSwapped(vertex) == <<vertex \div ROOM_SIZE, vertex % ROOM_SIZE>>

vertexToPosition(vertex) == <<vertex % ROOM_SIZE, vertex \div ROOM_SIZE>>

\* Faulty variant: the index runs down the columns.
positionToVertexByColumns(x, y) == x * ROOM_SIZE + y

positionToVertex(x, y) == y * ROOM_SIZE + x

\* -------------------------------------------------------------------- graph
\* Graph.addEdge on the adjacency lists E; r is the 0-based index of the
\* partner edge, as in the code (E[u][i + 1] is the code's edges[u][i]).
\* Faulty variant: the partner's index is taken after the push instead of
\* before it (the "- 1" is missing).
addEdgeIndexAfterPush(E, u, v, c) ==
  LET fwd == [v |-> v, r |-> Len(E[v]), c |-> c, f |-> 0]
      E1 == [E EXCEPT ![u] = Append(@, fwd)]
      rev == [v |-> u, r |-> Len(E1[u]), c |-> 0, f |-> 0]
  IN [E1 EXCEPT ![v] = Append(@, rev)]

addEdge(E, u, v, c) ==
  LET fwd == [v |-> v, r |-> Len(E[v]), c |-> c, f |-> 0]
      E1 == [E EXCEPT ![u] = Append(@, fwd)]
      rev == [v |-> u, r |-> Len(E1[u]) - 1, c |-> 0, f |-> 0]
  IN [E1 EXCEPT ![v] = Append(@, rev)]

emptyGraph == [u \in Vertices |-> <<>>]

\* The loop over SURROUND_OFFSETS of one NORMAL or PROTECTED tile, from offset i.
RECURSIVE connectNeighbors(_, _, _, _, _)
connectNeighbors(E, room, x, y, i) ==
  IF i > Len(SURROUND_OFFSETS) THEN E
  ELSE LET nx == x + SURROUND_OFFSETS[i][1]
           ny == y + SURROUND_OFFSETS[i][2]
           neighborType == tagAt(room, nx, ny)
           bot == positionToVertex(x, y) + TOP_OFFSET + BOT_OFFSET
       IN IF neighborType = NORMAL \/ neighborType = TO_EXIT
          THEN connectNeighbors(
                 addEdge(E, bot, positionToVertex(nx, ny) + TOP_OFFSET, infinity),
                 room, x, y, i + 1)
          ELSE connectNeighbors(E, room, x, y, i + 1)

\* Faulty variant: a PROTECTED tile gets an unbounded TOP -> BOT edge.
tileEdgesUncuttable(E, room, x, y) ==
  LET top == positionToVertex(x, y) + TOP_OFFSET
      bot == top + BOT_OFFSET
      tileType == room[<<x, y>>]
  IN IF tileType = NORMAL
     THEN connectNeighbors(addEdge(E, top, bot, 1), room, x, y, 1)
     ELSE IF tileType = PROTECTED
          THEN connectNeighbors(
                 addEdge(addEdge(E, SOURCE_VERTEX, top, infinity), top, bot, infinity),
                 room, x, y, 1)
          ELSE IF tileType = TO_EXIT
               THEN addEdge(E, top, SINK_VERTEX, infinity)
               ELSE E

\* The body of createGraph's double loop for the tile (x, y).
tileEdges(E, room, x, y) ==
  LET top == positionToVertex(x, y) + TOP_OFFSET
      bot == top + BOT_OFFSET
      tileType == room[<<x, y>>]
  IN IF tileType = NORMAL
     THEN connectNeighbors(addEdge(E, top, bot, 1), room, x, y, 1)
     ELSE IF tileType = PROTECTED
          THEN connectNeighbors(
                 addEdge(addEdge(E, SOURCE_VERTEX, top, infinity), top, bot, 1),
                 room, x, y, 1)
          ELSE IF tileType = TO_EXIT
               THEN addEdge(E, top, SINK_VERTEX, infinity)
               ELSE E

\* for x in 1..48, for y in 1..48: the k-th tile of the loop is
\* (1 + k div 48, 1 + k mod 48).
RECURSIVE graphLoop(_, _, _)
graphLoop(E, room, k) ==
  LET side == ROOM_MAX_INDEX - 1
  IN IF k >= side * side THEN E
     ELSE LET E1 == tileEdges(E, room, 1 + (k \div side), 1 + (k % side))
          IN Force(E1, graphLoop(E1, room, k + 1))

\* Faulty variant: the bounds check with > in place of >=.
validBoundsStrict(b) ==
  ~ (b.x1 > b.x2 \/ b.y1 > b.y2 \/ b.x1 < 0 \/ b.y1 < 0
     \/ b.x2 > ROOM_MAX_INDEX \/ b.y2 > ROOM_MAX_INDEX)

\* createGraph's bounds check.
validBounds(b) ==
  ~ (b.x1 >= b.x2 \/ b.y1 >= b.y2 \/ b.x1 < 0 \/ b.y1 < 0
     \/ b.x2 > ROOM_MAX_INDEX \/ b.y2 > ROOM_MAX_INDEX)

\* createGraph's loop over coords: a NORMAL tile named by coords becomes PROTECTED.
RECURSIVE markProtected(_, _, _)
markProtected(room, cs, i) ==
  IF i > Len(cs) THEN room
  ELSE IF tagAt(room, cs[i][1], cs[i][2]) = NORMAL
       THEN markProtected([room EXCEPT ![cs[i]] = PROTECTED], cs, i + 1)
       ELSE markProtected(room, cs, i + 1)

\* The grid createGraph works on.
graphRoomArray(walls, cs, b) ==
  markProtected(createRoom2DArrayFromTerrain(walls, b), cs, 1)

\* ---------------------------------------------------------------- Dinic
\* Faulty variant: a saturated edge is followed as well (no f < c test).
RECURSIVE bfsEdgesSaturated(_, _, _, _)
bfsEdgesSaturated(E, st, u, i) ==
  IF i > Len(E[u]) THEN st
  ELSE LET edge == E[u][i]
       IN IF st.level[edge.v] < 0
          THEN bfsEdgesSaturated(E, [level |-> [st.level EXCEPT ![edge.v] = st.level[u] + 1],
                                     queue |-> Append(st.queue, edge.v)], u, i + 1)
          ELSE bfsEdgesSaturated(E, st, u, i + 1)

\* The for loop of Graph.bfs over the edges of u, from edge i: st = [level, queue].
RECURSIVE bfsEdges(_, _, _, _)
bfsEdges(E, st, u, i) ==
  IF i > Len(E[u]) THEN st
  ELSE LET edge == E[u][i]
       IN IF st.level[edge.v] < 0 /\ edge.f < edge.c
          THEN bfsEdges(E, [level |-> [st.level EXCEPT ![edge.v] = st.level[u] + 1],
                            queue |-> Append(st.queue, edge.v)], u, i + 1)
          ELSE bfsEdges(E, st, u, i + 1)

\* The while loop of Graph.bfs; queueIndex is 1-based here.
RECURSIVE bfsLoop(_, _, _)
bfsLoop(E, st, queueIndex) ==
  IF queueIndex > Len(st.queue) THEN st.level
  ELSE bfsLoop(E, bfsEdges(E, st, st.queue[queueIndex], 1), queueIndex + 1)

\* Graph.bfs(s, t): the level array it leaves; it returns level[t] >= 0.
bfs(E, s, t) ==
  bfsLoop(E, [level |-> [[u \in Vertices |-> -1] EXCEPT ![s] = 0],
              queue |-> <<s>>], 1)

\* Faulty variant: the flow is added to the edge but not taken from its
\* reverse partner.
RECURSIVE dfsFlowForwardOnly(_, _, _, _, _, _)
dfsFlowForwardOnly(E, lvl, u, f, t, cnt) ==
  IF u = t THEN [edges |-> E, count |-> cnt, flow |-> f]
  ELSE IF ~ (cnt[u] < Len(E[u])) THEN [edges |-> E, count |-> cnt, flow |-> 0]
  ELSE
    LET edge == E[u][cnt[u] + 1]
    IN IF lvl[edge.v] = lvl[u] + 1 /\ edge.f < edge.c
       THEN LET flowTillHere == Min(f, edge.c - edge.f)
                sub == dfsFlowForwardOnly(E, lvl, edge.v, flowTillHere, t, cnt)
                flowToT == sub.flow
            IN IF flowToT > 0
               THEN [edges |-> [sub.edges EXCEPT ![u][cnt[u] + 1].f = @ + flowToT],
                     count |-> sub.count, flow |-> flowToT]
               ELSE dfsFlowForwardOnly(sub.edges, lvl, u, f, t,
                                       [sub.count EXCEPT ![u] = @ + 1])
       ELSE dfsFlowForwardOnly(E, lvl, u, f, t, [cnt EXCEPT ![u] = @ + 1])

\* Graph.dfsFlow(u, f, t, count): [edges, count, flow] after the call.
RECURSIVE dfsFlow(_, _, _, _, _, _)
dfsFlow(E, lvl, u, f, t, cnt) ==
  IF u = t THEN [edges |-> E, count |-> cnt, flow |-> f]
  ELSE IF ~ (cnt[u] < Len(E[u])) THEN [edges |-> E, count |-> cnt, flow |-> 0]
  ELSE
    LET edge == E[u][cnt[u] + 1]
    IN IF lvl[edge.v] = lvl[u] + 1 /\ edge.f < edge.c
       THEN LET flowTillHere == Min(f, edge.c - edge.f)
                sub == dfsFlow(E, lvl, edge.v, flowTillHere, t, cnt)
                flowToT == sub.flow
            IN IF flowToT > 0
               THEN LET E1 == [sub.edges EXCEPT ![u][cnt[u] + 1].f = @ + flowToT]
                        E2 == [E1 EXCEPT ![edge.v][edge.r + 1].f = @ - flowToT]
                    IN [edges |-> E2, count |-> sub.count, flow |-> flowToT]
               ELSE dfsFlow(sub.edges, lvl, u, f, t,
                            [sub.count EXCEPT ![u] = @ + 1])
       ELSE dfsFlow(E, lvl, u, f, t, [cnt EXCEPT ![u] = @ + 1])

\* ------------------------------------------------------------ cut extraction
\* The for loop of Graph.bfsTheCut over the edges of u:
\* st = [level, queue, edgesInCut].
\* Faulty variant: an edge of capacity 0 counts as a blocking edge.
RECURSIVE cutEdgesAnyCapacity(_, _, _, _)
cutEdgesAnyCapacity(E, st, u, i) ==
  IF i > Len(E[u]) THEN st
  ELSE LET edge == E[u][i]
           reach == edge.f < edge.c /\ st.level[edge.v] < 1
           st1 == IF reach
                  THEN [st EXCEPT !.level[edge.v] = 1,
                                  !.queue = Append(@, edge.v)]
                  ELSE st
           st2 == IF edge.f = edge.c
                  THEN [st1 EXCEPT !.edgesInCut = Append(@, [u |-> u, v |-> edge.v])]
                  ELSE st1
       IN cutEdgesAnyCapacity(E, st2, u, i + 1)

\* Faulty variant: the search also follows a saturated edge.
RECURSIVE cutEdgesThroughSaturated(_, _, _, _)
cutEdgesThroughSaturated(E, st, u, i) ==
  IF i > Len(E[u]) THEN st
  ELSE LET edge == E[u][i]
           reach == edge.f <= edge.c /\ st.level[edge.v] < 1
           st1 == IF reach
                  THEN [st EXCEPT !.level[edge.v] = 1,
                                  !.queue = Append(@, edge.v)]
                  ELSE st
           st2 == IF edge.f = edge.c /\ edge.c > 0
                  THEN [st1 EXCEPT !.edgesInCut = Append(@, [u |-> u, v |-> edge.v])]
                  ELSE st1
       IN cutEdgesThroughSaturated(E, st2, u, i + 1)

RECURSIVE cutEdges(_, _, _, _)
cutEdges(E, st, u, i) ==
  IF i > Len(E[u]) THEN st
  ELSE LET edge == E[u][i]
           reach == edge.f < edge.c /\ st.level[edge.v] < 1
           st1 == IF reach
                  THEN [st EXCEPT !.level[edge.v] = 1,
                                  !.queue = Append(@, edge.v)]
                  ELSE st
           st2 == IF edge.f = edge.c /\ edge.c > 0
                  THEN [st1 EXCEPT !.edgesInCut = Append(@, [u |-> u, v |-> edge.v])]
                  ELSE st1
       IN cutEdges(E, st2, u, i + 1)

RECURSIVE cutLoop(_, _, _)
cutLoop(E, st, queueIndex) ==
  IF queueIndex > Len(st.queue) THEN st
  ELSE cutLoop(E, cutEdges(E, st, st.queue[queueIndex], 1), queueIndex + 1)

\* The residual search of bfsTheCut: [level, queue, edgesInCut] when it ends.
cutSearch(E, s) ==
  cutLoop(E, [level |-> [[u \in Vertices |-> -1] EXCEPT ![s] = 1],
              queue |-> <<s>>, edgesInCut |-> <<>>], 1)

\* Faulty variant: no test of the level of the edge's far end.
RECURSIVE cutFilterAll(_, _, _)
cutFilterAll(lvl, edgesInCut, i) ==
  IF i > Len(edgesInCut) THEN <<>>
  ELSE <<edgesInCut[i].u>> \o cutFilterAll(lvl, edgesInCut, i + 1)

RECURSIVE cutFilter(_, _, _)
cutFilter(lvl, edgesInCut, i) ==
  IF i > Len(edgesInCut) THEN <<>>
  ELSE IF lvl[edgesInCut[i].v] = -1
       THEN <<edgesInCut[i].u>> \o cutFilter(lvl, edgesInCut, i + 1)
       ELSE cutFilter(lvl, edgesInCut, i + 1)

\* Graph.bfsTheCut(s): the source ends of the blocking edges that lead to a
\* vertex the residual search did not reach.
bfsTheCut(E, s) ==
  LET st == cutSearch(E, s)
  IN cutFilter(st.level, st.edgesInCut, 1)

\* ---------------------------------------------------------- dead-end pruning
\* cutTilesArray's tiles become UNWALKABLE in the working grid.
markCut(room, cut) ==
  [t \in Tiles |-> IF \E i \in 1 .. Len(cut) : cut[i] = t THEN UNWALKABLE ELSE room[t]]

\* The two seed loops of deleteTilesToDeadEnds, in the order of the pushes.
RECURSIVE seedColumns(_, _)
seedColumns(room, y) ==
  IF y >= ROOM_MAX_INDEX THEN <<>>
  ELSE (IF tagAt(room, 1, y) = TO_EXIT THEN <<positionToVertex(1, y)>> ELSE <<>>)
       \o (IF tagAt(room, ROOM_MAX_INDEX - 1, y) = TO_EXIT
           THEN <<positionToVertex(ROOM_MAX_INDEX - 1, y)>> ELSE <<>>)
       \o seedColumns(room, y + 1)

RECURSIVE seedRows(_, _)
seedRows(room, x) ==
  IF x >= ROOM_MAX_INDEX THEN <<>>
  ELSE (IF tagAt(room, x, 1) = TO_EXIT THEN <<positionToVertex(x, 1)>> ELSE <<>>)
       \o (IF tagAt(room, x, ROOM_MAX_INDEX - 1) = TO_EXIT
           THEN <<positionToVertex(x, ROOM_MAX_INDEX - 1)>> ELSE <<>>)
       \o seedRows(room, x + 1)

\* The loop over SURROUND_OFFSETS of one popped tile: st = [room, unvisitedPos].
RECURSIVE floodNeighbors(_, _, _, _)
floodNeighbors(st, x, y, i) ==
  IF i > Len(SURROUND_OFFSETS) THEN st
  ELSE LET nx == x + SURROUND_OFFSETS[i][1]
           ny == y + SURROUND_OFFSETS[i][2]
       IN IF tagAt(st.room, nx, ny) = NORMAL
          THEN floodNeighbors(
                 [room |-> [st.room EXCEPT ![<<nx, ny>>] = TO_EXIT],
                  unvisitedPos |-> Append(st.unvisitedPos, positionToVertex(nx, ny))],
                 x, y, i + 1)
          ELSE floodNeighbors(st, x, y, i + 1)

\* Faulty variant: the seeds are popped but their neighbours are not marked.
floodFillSeedsOnly(st) == st.room

\* while (unvisitedPos.length > 0) { pop; ... }: the grid after the flood.
RECURSIVE floodFill(_)
floodFill(st) ==
  IF Len(st.unvisitedPos) = 0 THEN st.room
  ELSE LET index == st.unvisitedPos[Len(st.unvisitedPos)]
           pos == vertexToPosition(index)
           rest == SubSeq(st.unvisitedPos, 1, Len(st.unvisitedPos) - 1)
       IN floodFill(floodNeighbors([room |-> st.room, unvisitedPos |-> rest],
                                   pos[1], pos[2], 1))

\* The working grid of deleteTilesToDeadEnds after the flood fill.
floodedRoom(walls, cut) ==
  LET room == markCut(createRoom2DArrayFromTerrain(walls, FullBounds), cut)
  IN floodFill([room |-> room,
                unvisitedPos |-> seedColumns(room, 1) \o seedRows(room, 1)])

\* leadsToExit of the last loop: some neighbour of the tile is TO_EXIT.
leadsToExit(room, tile) ==
  \E i \in 1 .. Len(SURROUND_OFFSETS) :
     tagAt(room, tile[1] + SURROUND_OFFSETS[i][1],
                 tile[2] + SURROUND_OFFSETS[i][2]) = TO_EXIT

\* Faulty variant: the last loop keeps the tiles that do NOT lead to an exit.
deleteTilesLeadingToExit(walls, cut) ==
  LET room == floodedRoom(walls, cut)
      keep(tile) == ~ leadsToExit(room, tile)
  IN SelectSeq(cut, keep)

\* deleteTilesToDeadEnds: the list after the splices (the order is kept).
deleteTilesToDeadEnds(walls, cut) ==
  LET room == floodedRoom(walls, cut)
      keep(tile) == leadsToExit(room, tile)
  IN SelectSeq(cut, keep)

RECURSIVE toPositions(_, _)
toPositions(vs, i) ==
  IF i > Len(vs) THEN <<>>
  ELSE <<vertexToPosition(vs[i])>> \o toPositions(vs, i + 1)

isWholeRoom(b) ==
  b.x1 = 0 /\ b.y1 = 0 /\ b.x2 = ROOM_MAX_INDEX /\ b.y2 = ROOM_MAX_INDEX

\* ---------------------------------------------------------------- calculate
\* calculate's loops over protectedPos: protectedArr is 1 on the protected
\* positions and 0 elsewhere.
initialProtectedArr(pp) ==
  [t \in Tiles |-> IF \E i \in 1 .. Len(pp) : pp[i] = t THEN 1 ELSE 0]

\* Faulty variant: a tile is expanded further only below the last level.
RECURSIVE expandNeighborsBelowLast(_, _, _, _)
expandNeighborsBelowLast(st, p, currentLevel, i) ==
  IF i > Len(SURROUND_OFFSETS) THEN st
  ELSE LET x == p[1] + SURROUND_OFFSETS[i][1]
           y == p[2] + SURROUND_OFFSETS[i][2]
       IN IF x >= 0 /\ x < ROOM_SIZE /\ y >= 0 /\ y < ROOM_SIZE
             /\ st.protectedArr[<<x, y>>] = 0
          THEN LET newLevel == currentLevel + 1
               IN expandNeighborsBelowLast(
                    [protectedArr |-> [st.protectedArr EXCEPT ![<<x, y>>] = newLevel],
                     expandedProtectedPos |-> Append(st.expandedProtectedPos, <<x, y>>),
                     frontier |-> IF newLevel < ExpandLevels
                                  THEN Append(st.frontier, <<x, y>>)
                                  ELSE st.frontier],
                    p, currentLevel, i + 1)
          ELSE expandNeighborsBelowLast(st, p, currentLevel, i + 1)

\* The loop over SURROUND_OFFSETS for the frontier entry p:
\* st = [protectedArr, expandedProtectedPos, frontier].
RECURSIVE expandNeighbors(_, _, _, _)
expandNeighbors(st, p, currentLevel, i) ==
  IF i > Len(SURROUND_OFFSETS) THEN st
  ELSE LET x == p[1] + SURROUND_OFFSETS[i][1]
           y == p[2] + SURROUND_OFFSETS[i][2]
       IN IF x >= 0 /\ x < ROOM_SIZE /\ y >= 0 /\ y < ROOM_SIZE
             /\ st.protectedArr[<<x, y>>] = 0
          THEN LET newLevel == currentLevel + 1
               IN expandNeighbors(
                    [protectedArr |-> [st.protectedArr EXCEPT ![<<x, y>>] = newLevel],
                     expandedProtectedPos |-> Append(st.expandedProtectedPos, <<x, y>>),
                     frontier |-> IF newLevel <= ExpandLevels
                                  THEN Append(st.frontier, <<x, y>>)
                                  ELSE st.frontier],
                    p, currentLevel, i + 1)
          ELSE expandNeighbors(st, p, currentLevel, i + 1)

\* while (frontierIndex < frontier.length); frontierIndex is 1-based here.
RECURSIVE expandLoop(_, _)
expandLoop(st, frontierIndex) ==
  IF frontierIndex > Len(st.frontier) THEN st
  ELSE LET p == st.frontier[frontierIndex]
       IN expandLoop(expandNeighbors(st, p, st.protectedArr[p], 1), frontierIndex + 1)

\* The positions around the controller that lie in the room, in offset order.
RECURSIVE controllerNeighbors(_, _)
controllerNeighbors(cp, i) ==
  IF i > Len(SURROUND_OFFSETS) THEN <<>>
  ELSE LET x == cp[1] + SURROUND_OFFSETS[i][1]
           y == cp[2] + SURROUND_OFFSETS[i][2]
       IN (IF x >= 0 /\ x < ROOM_SIZE /\ y >= 0 /\ y < ROOM_SIZE
           THEN <<<<x, y>>>> ELSE <<>>)
          \o controllerNeighbors(cp, i + 1)

\* The list calculate hands to getCutTiles.
expandedProtectedPos(pp, cp) ==
  expandLoop([protectedArr |-> initialProtectedArr(pp),
              expandedProtectedPos |-> pp,
              frontier |-> pp], 1).expandedProtectedPos
  \o controllerNeighbors(cp, 1)

\* The returned positions become RAMPART_MIN in calculate's grid.
markRamparts(room, cut) ==
  [t \in Tiles |-> IF \E i \in 1 .. Len(cut) : cut[i] = t THEN RAMPART_MIN ELSE room[t]]

\* for x, for y: the EXIT tiles in the order they are pushed; the k-th tile
\* of the double loop is (k div 50, k mod 50).
RECURSIVE exitFrontier(_, _)
exitFrontier(room, k) ==
  IF k >= ROOM_SIZE * ROOM_SIZE THEN <<>>
  ELSE LET t == <<k \div ROOM_SIZE, k % ROOM_SIZE>>
       IN (IF room[t] = EXIT THEN <<t>> ELSE <<>>) \o exitFrontier(room, k + 1)

\* Faulty variant: the flood does not stop at RAMPART_MIN tiles.
RECURSIVE exposeThroughRamparts(_, _, _)
exposeThroughRamparts(st, p, i) ==
  IF i > Len(SURROUND_OFFSETS) THEN st
  ELSE LET x == p[1] + SURROUND_OFFSETS[i][1]
           y == p[2] + SURROUND_OFFSETS[i][2]
       IN IF x >= 0 /\ x < ROOM_SIZE /\ y >= 0 /\ y < ROOM_SIZE
             /\ <<x, y>> \notin st.explored
             /\ st.room[<<x, y>>] # UNWALKABLE
          THEN exposeThroughRamparts(
                 [room |-> [st.room EXCEPT ![<<x, y>>] = EXPOSED],
                  exposedFrontier |-> Append(st.exposedFrontier, <<x, y>>),
                  explored |-> st.explored \cup {<<x, y>>}],
                 p, i + 1)
          ELSE exposeThroughRamparts(st, p, i + 1)

\* The loop over SURROUND_OFFSETS of the exposure flood for the entry p:
\* st = [room, exposedFrontier, explored].
RECURSIVE exposeNeighbors(_, _, _)
exposeNeighbors(st, p, i) ==
  IF i > Len(SURROUND_OFFSETS) THEN st
  ELSE LET x == p[1] + SURROUND_OFFSETS[i][1]
           y == p[2] + SURROUND_OFFSETS[i][2]
       IN IF x >= 0 /\ x < ROOM_SIZE /\ y >= 0 /\ y < ROOM_SIZE
             /\ <<x, y>> \notin st.explored
             /\ st.room[<<x, y>>] # UNWALKABLE
             /\ st.room[<<x, y>>] # RAMPART_MIN
          THEN exposeNeighbors(
                 [room |-> [st.room EXCEPT ![<<x, y>>] = EXPOSED],
                  exposedFrontier |-> Append(st.exposedFrontier, <<x, y>>),
                  explored |-> st.explored \cup {<<x, y>>}],
                 p, i + 1)
          ELSE exposeNeighbors(st, p, i + 1)

\* while (exposedIndex < exposedFrontier.length); exposedIndex is 1-based here.
RECURSIVE exposeLoop(_, _)
exposeLoop(st, exposedIndex) ==
  IF exposedIndex > Len(st.exposedFrontier) THEN st.room
  ELSE exposeLoop(exposeNeighbors(st, st.exposedFrontier[exposedIndex], 1),
                  exposedIndex + 1)

\* calculate's grid after the ramparts are marked and the flood has run.
exposedRoom(room, cut) ==
  LET marked == markRamparts(room, cut)
      exits == exitFrontier(marked, 0)
  IN exposeLoop([room |-> [t \in Tiles |-> IF marked[t] = EXIT THEN EXPOSED ELSE marked[t]],
                 exposedFrontier |-> exits,
                 explored |-> {exits[i] : i \in 1 .. Len(exits)}], 1)

\* The cost matrix: 0xff on EXPOSED tiles, the default 0 elsewhere.
costMatrixOf(room) == [t \in Tiles |-> IF room[t] = EXPOSED THEN 255 ELSE 0]

\* ------------------------------------------------------------- buildLayout
emptyLayout ==
  [spawn |-> <<>>, extension |-> <<>>, extractor |-> <<>>, factory |-> <<>>,
   lab |-> <<>>, tower |-> <<>>, link |-> <<>>, nuker |-> <<>>,
   observer |-> <<>>, powerSpawn |-> <<>>, storage |-> <<>>,
   terminal |-> <<>>, container |-> <<>>, road |-> <<>>]

LayoutKeys == DOMAIN emptyLayout

\* A cluster is the list of its (structureType, offsets) entries in key order.
storageCluster ==
  <<[type |-> "storage", offsets |-> <<<<0, 0>>>>],
    [type |-> "link", offsets |-> <<<<0, 1>>>>]>>

labCluster ==
  <<[type |-> "lab",
     offsets |-> <<<<-1, -1>>, <<0, -1>>, <<1, -1>>,
                   <<-1, 0>>, <<0, 0>>, <<1, 0>>,
                   <<-1, 1>>, <<0, 1>>, <<1, 1>>,
                   <<0, 2>>>>]>>

towerCluster ==
  <<[type |-> "tower", offsets |-> <<<<-1, -1>>, <<0, -1>>, <<1, -1>>>>]>>

extensionCluster ==
  <<[type |-> "extension",
     offsets |-> <<<<-1, -1>>, <<0, -1>>, <<1, -1>>, <<-1, 0>>, <<1, 0>>>>]>>

observerCluster == <<[type |-> "observer", offsets |-> <<<<0, 0>>>>]>>

\* initArr(defaultValue)
initArr(defaultValue) == [t \in Tiles |-> defaultValue]

isOnWallOrEdgePure(x, y, walls) ==
  IF x <= 0 \/ x >= ROOM_MAX_INDEX \/ y <= 0 \/ y >= ROOM_MAX_INDEX
  THEN TRUE
  ELSE terrainGet(walls, x, y) = TERRAIN_MASK_WALL

isNearWallOrEdgePure(x, y, walls) ==
  IF x <= 1 \/ x >= ROOM_MAX_INDEX - 1 \/ y <= 1 \/ y >= ROOM_MAX_INDEX - 1
  THEN TRUE
  ELSE \E i \in 1 .. Len(SURROUND_OFFSETS) :
         terrainGet(walls, x + SURROUND_OFFSETS[i][1], y + SURROUND_OFFSETS[i][2])
           = TERRAIN_MASK_WALL

\* Faulty variant: only the four straight neighbours are visited.
RECURSIVE costNeighborsStraight(_, _, _, _, _, _, _)
costNeighborsStraight(st, x, y, cost, maxRange, walls, i) ==
  IF i > Len(SURROUND_OFFSETS) THEN st
  ELSE LET nx == x + SURROUND_OFFSETS[i][1]
           ny == y + SURROUND_OFFSETS[i][2]
       IN IF nx >= 0 /\ nx < ROOM_SIZE /\ ny >= 0 /\ ny < ROOM_SIZE
             /\ (nx = x \/ ny = y)
             /\ <<nx, ny>> \notin st.explored
             /\ terrainGet(walls, nx, ny) # TERRAIN_MASK_WALL
          THEN LET newCost == cost + 1
               IN costNeighborsStraight(
                    [costArr |-> [st.costArr EXCEPT ![<<nx, ny>>] = newCost],
                     frontier |-> IF newCost < maxRange
                                  THEN Append(st.frontier, <<nx, ny, newCost>>)
                                  ELSE st.frontier,
                     explored |-> st.explored \cup {<<nx, ny>>}],
                    x, y, cost, maxRange, walls, i + 1)
          ELSE costNeighborsStraight(st, x, y, cost, maxRange, walls, i + 1)

\* Faulty variant: the terrain is not read, so walls are crossed and written.
RECURSIVE costNeighborsThroughWalls(_, _, _, _, _, _, _)
costNeighborsThroughWalls(st, x, y, cost, maxRange, walls, i) ==
  IF i > Len(SURROUND_OFFSETS) THEN st
  ELSE LET nx == x + SURROUND_OFFSETS[i][1]
           ny == y + SURROUND_OFFSETS[i][2]
       IN IF nx >= 0 /\ nx < ROOM_SIZE /\ ny >= 0 /\ ny < ROOM_SIZE
             /\ <<nx, ny>> \notin st.explored
          THEN LET newCost == cost + 1
               IN costNeighborsThroughWalls(
                    [costArr |-> [st.costArr EXCEPT ![<<nx, ny>>] = newCost],
                     frontier |-> IF newCost < maxRange
                                  THEN Append(st.frontier, <<nx, ny, newCost>>)
                                  ELSE st.frontier,
                     explored |-> st.explored \cup {<<nx, ny>>}],
                    x, y, cost, maxRange, walls, i + 1)
          ELSE costNeighborsThroughWalls(st, x, y, cost, maxRange, walls, i + 1)

\* The loop over SURROUND_OFFSETS of getCostArrayPure for the entry
\* (x, y, cost): st = [costArr, frontier, explored].
RECURSIVE costNeighbors(_, _, _, _, _, _, _)
costNeighbors(st, x, y, cost, maxRange, walls, i) ==
  IF i > Len(SURROUND_OFFSETS) THEN st
  ELSE LET nx == x + SURROUND_OFFSETS[i][1]
           ny == y + SURROUND_OFFSETS[i][2]
       IN IF nx >= 0 /\ nx < ROOM_SIZE /\ ny >= 0 /\ ny < ROOM_SIZE
             /\ <<nx, ny>> \notin st.explored
             /\ terrainGet(walls, nx, ny) # TERRAIN_MASK_WALL
          THEN LET newCost == cost + 1
               IN costNeighbors(
                    [costArr |-> [st.costArr EXCEPT ![<<nx, ny>>] = newCost],
                     frontier |-> IF newCost < maxRange
                                  THEN Append(st.frontier, <<nx, ny, newCost>>)
                                  ELSE st.frontier,
                     explored |-> st.explored \cup {<<nx, ny>>}],
                    x, y, cost, maxRange, walls, i + 1)
          ELSE costNeighbors(st, x, y, cost, maxRange, walls, i + 1)

\* while (frontierIndex < frontier.length); frontierIndex is 1-based here.
RECURSIVE costLoop(_, _, _, _)
costLoop(st, maxRange, walls, frontierIndex) ==
  IF frontierIndex > Len(st.frontier) THEN st.costArr
  ELSE LET e == st.frontier[frontierIndex]
       IN IF e[3] >= maxRange
          THEN costLoop(st, maxRange, walls, frontierIndex + 1)
          ELSE costLoop(costNeighbors(st, e[1], e[2], e[3], maxRange, walls, 1),
                        maxRange, walls, frontierIndex + 1)

\* getCostArrayPure: costArr after the call.
getCostArrayPure(costArr, startX, startY, maxRange, walls) ==
  costLoop([costArr |-> [costArr EXCEPT ![<<startX, startY>>] = 0],
            frontier |-> <<<<startX, startY, 0>>>>,
            explored |-> {<<startX, startY>>}],
           maxRange, walls, 1)

\* for (const source of sources) getCostArray(sourceArr, ..., 3, roomname)
RECURSIVE sourceCosts(_, _, _, _)
sourceCosts(costArr, srcs, walls, i) ==
  IF i > Len(srcs) THEN costArr
  ELSE sourceCosts(getCostArrayPure(costArr, srcs[i][1], srcs[i][2], 3, walls),
                   srcs, walls, i + 1)

\* The wall-distance field is kept as WallScale times the code's value, so
\* that (value + 10) * 0.75 stays an integer for every depth a room allows.
WallScale == 4 ^ ROOM_SIZE

wallNeighborOffsets ==
  <<<<-1, -1>>, <<-1, 0>>, <<-1, 1>>, <<0, -1>>, <<0, 1>>, <<1, -1>>, <<1, 0>>, <<1, 1>>>>

\* for x, for y: if (isOnWallOrEdge(x, y, terrain)) wallFrontier.push([x, y])
RECURSIVE wallSeeds(_, _)
wallSeeds(walls, k) ==
  IF k >= ROOM_SIZE * ROOM_SIZE THEN <<>>
  ELSE LET x == k \div ROOM_SIZE
           y == k % ROOM_SIZE
       IN (IF isOnWallOrEdgePure(x, y, walls) THEN <<<<x, y>>>> ELSE <<>>)
          \o wallSeeds(walls, k + 1)

\* The loop over the neighbours of (x, y): st = [wallArr, wallFrontier, wallExplored].
RECURSIVE wallNeighbors(_, _, _, _)
wallNeighbors(st, x, y, i) ==
  IF i > Len(wallNeighborOffsets) THEN st
  ELSE LET nx == x + wallNeighborOffsets[i][1]
           ny == y + wallNeighborOffsets[i][2]
       IN IF nx > 0 /\ nx < ROOM_MAX_INDEX /\ ny > 0 /\ ny < ROOM_MAX_INDEX
             /\ <<nx, ny>> \notin st.wallExplored
          THEN wallNeighbors(
                 [wallArr |-> [st.wallArr EXCEPT ![<<nx, ny>>] =
                                 ((st.wallArr[<<x, y>>] + 10 * WallScale) * 3) \div 4],
                  wallFrontier |-> Append(st.wallFrontier, <<nx, ny>>),
                  wallExplored |-> st.wallExplored \cup {<<nx, ny>>}],
                 x, y, i + 1)
          ELSE wallNeighbors(st, x, y, i + 1)

\* while (wallIndex < wallFrontier.length); wallIndex is 1-based here.
RECURSIVE wallLoop(_, _)
wallLoop(st, wallIndex) ==
  IF wallIndex > Len(st.wallFrontier) THEN st.wallArr
  ELSE LET t == st.wallFrontier[wallIndex]
       IN wallLoop(wallNeighbors(st, t[1], t[2], 1), wallIndex + 1)

\* wallArr of buildLayout, times WallScale.
wallDistances(walls) ==
  LET seeds == wallSeeds(walls, 0)
  IN wallLoop([wallArr |-> initArr(0), wallFrontier |-> seeds,
               wallExplored |-> {seeds[i] : i \in 1 .. Len(seeds)}], 1)

\* The numbers of the program are floating-point: a whole number is held
\* exactly up to MAX_SAFE = 2 ^ MantissaBits in magnitude (the program's
\* numbers have 53 bits), and the result of an operation beyond that is
\* rounded to MantissaBits significant bits, a tie going to the even one.
MAX_SAFE == 2 ^ MantissaBits

Abs(n) == IF n < 0 THEN -n ELSE n

\* The spacing of the representable numbers around n.
RECURSIVE ulp(_)
ulp(n) == IF Abs(n) < MAX_SAFE THEN 1 ELSE 2 * ulp(n \div 2)

jsRound(n) ==
  IF Abs(n) <= MAX_SAFE THEN n
  ELSE LET u == ulp(n)
           q == n \div u
           r == n % u
       IN IF 2 * r < u THEN q * u
          ELSE IF 2 * r > u THEN (q + 1) * u
          ELSE IF q % 2 = 0 THEN q * u ELSE (q + 1) * u

\* a + b and a * b on the program's numbers.
jsAdd(a, b) == jsRound(a + b)
jsMul(a, b) == jsRound(a * b)

\* Faulty variant: each array is assigned to the result, not added to it.
addArraysAssigned(arrays) ==
  IF Len(arrays) = 0 THEN initArr(0) ELSE arrays[Len(arrays)]

\* addArrays(...arrays): result starts at 0 and each array is added to it
\* in argument order.
RECURSIVE addArrays(_)
addArrays(arrays) ==
  IF Len(arrays) = 0 THEN initArr(0)
  ELSE LET rest == addArrays(SubSeq(arrays, 1, Len(arrays) - 1))
       IN [t \in Tiles |-> jsAdd(rest[t], arrays[Len(arrays)][t])]

\* multiplyArray(arr, scalar)
multiplyArray(arr, scalar) == [t \in Tiles |-> jsMul(arr[t], scalar)]

\* Faulty variant: the built array is not read.
canPutPureUnbuiltOnly(x, y, cluster, built, walls) ==
  \A c \in 1 .. Len(cluster) :
    \A i \in 1 .. Len(cluster[c].offsets) :
      LET nx == x + cluster[c].offsets[i][1]
          ny == y + cluster[c].offsets[i][2]
      IN /\ ~ (nx < 0 \/ nx >= ROOM_SIZE \/ ny < 0 \/ ny >= ROOM_SIZE)
         /\ terrainGet(walls, nx, ny) # TERRAIN_MASK_WALL

\* canPutPure: the cluster fits at (x, y): in the room, not built, not wall.
canPutPure(x, y, cluster, built, walls) ==
  \A c \in 1 .. Len(cluster) :
    \A i \in 1 .. Len(cluster[c].offsets) :
      LET nx == x + cluster[c].offsets[i][1]
          ny == y + cluster[c].offsets[i][2]
      IN /\ ~ (nx < 0 \/ nx >= ROOM_SIZE \/ ny < 0 \/ ny >= ROOM_SIZE)
         /\ <<nx, ny>> \notin built
         /\ terrainGet(walls, nx, ny) # TERRAIN_MASK_WALL

\* canPut: canPutPure, and room.lookAt finds no structure or construction
\* site on a tile of the cluster (occupied: the tiles where it finds one).
canPut(x, y, cluster, built, occupied, walls) ==
  /\ canPutPure(x, y, cluster, built, walls)
  /\ \A c \in 1 .. Len(cluster) :
       \A i \in 1 .. Len(cluster[c].offsets) :
         <<x + cluster[c].offsets[i][1], y + cluster[c].offsets[i][2]>> \notin occupied

\* The inner loop of put over the offsets of one structure type:
\* st = [layout, built, threw].  built[nx] is undefined when nx is outside
\* 0..49, and built[nx][ny] = true then throws, after the push.
RECURSIVE putOffsets(_, _, _, _, _, _)
putOffsets(st, x, y, type, offsets, i) ==
  IF i > Len(offsets) \/ st.threw THEN st
  ELSE LET nx == x + offsets[i][1]
           ny == y + offsets[i][2]
           pushed == [st.layout EXCEPT ![type] = Append(@, <<nx, ny>>)]
       IN IF nx < 0 \/ nx >= ROOM_SIZE
          THEN [layout |-> pushed, built |-> st.built, threw |-> TRUE]
          ELSE putOffsets([layout |-> pushed,
                           built |-> st.built \cup {<<nx, ny>>},
                           threw |-> FALSE],
                          x, y, type, offsets, i + 1)

RECURSIVE putTypes(_, _, _, _, _)
putTypes(st, x, y, cluster, c) ==
  IF c > Len(cluster) \/ st.threw THEN st
  ELSE putTypes(putOffsets(st, x, y, cluster[c].type, cluster[c].offsets, 1),
                x, y, cluster, c + 1)

\* put(x, y, layout, cluster, built): [layout, built, threw] after the call.
put(x, y, layout, cluster, built) ==
  putTypes([layout |-> layout, built |-> built, threw |-> FALSE], x, y, cluster, 1)

\* Faulty variant: the scan runs over y in the outer loop and x in the inner.
RECURSIVE findMinLoopByRows(_, _, _, _)
findMinLoopByRows(matrix, accepted, k, best) ==
  IF k >= ROOM_SIZE * ROOM_SIZE THEN <<best.minX, best.minY>>
  ELSE LET x == k % ROOM_SIZE
           y == k \div ROOM_SIZE
           value == matrix[<<x, y>>]
       IN IF value < best.minValue /\ <<x, y>> \in accepted
          THEN findMinLoopByRows(matrix, accepted, k + 1,
                                 [minValue |-> value, minX |-> x, minY |-> y])
          ELSE findMinLoopByRows(matrix, accepted, k + 1, best)

\* The double loop of findMin from the k-th cell (k div 50, k mod 50);
\* accepted: the cells where the predicate holds.
RECURSIVE findMinLoop(_, _, _, _)
findMinLoop(matrix, accepted, k, best) ==
  IF k >= ROOM_SIZE * ROOM_SIZE THEN <<best.minX, best.minY>>
  ELSE LET x == k \div ROOM_SIZE
           y == k % ROOM_SIZE
           value == matrix[<<x, y>>]
       IN IF value < best.minValue /\ <<x, y>> \in accepted
          THEN findMinLoop(matrix, accepted, k + 1,
                           [minValue |-> value, minX |-> x, minY |-> y])
          ELSE findMinLoop(matrix, accepted, k + 1, best)

\* Faulty variant: the answer starts at (-1, -1), off the grid.
findMinOffGrid(matrix, accepted) ==
  findMinLoop(matrix, accepted, 0, [minValue |-> MAX_VALUE, minX |-> -1, minY |-> -1])

\* findMin(matrix, predicate): minValue starts at Number.MAX_VALUE, so the
\* answer is (0, 0) when no accepted cell holds less than that.
findMin(matrix, accepted) ==
  findMinLoop(matrix, accepted, 0, [minValue |-> MAX_VALUE, minX |-> 0, minY |-> 0])

\* serialize(pos): the string "x,y".
serialize(pos) == ToString(pos[1]) \o "," \o ToString(pos[2])

\* The host's path-finder, room.findPath(from, to, {range}): a shortest
\* 8-connected path over non-wall tiles from `from` (excluded) to the first
\* tile within `range` of `to`; empty when `from` is already in range or no
\* such path exists.
inRangeTo(a, b, range) == Abs(a[1] - b[1]) <= range /\ Abs(a[2] - b[2]) <= range

RECURSIVE pathDistances(_, _, _, _)
pathDistances(open, frontier, D, d) ==
  IF frontier = {} THEN D
  ELSE LET next == {t \in open : D[t] = -1 /\ \E f \in frontier : inRangeTo(t, f, 1)}
       IN pathDistances(open, next,
                        [t \in Tiles |-> IF t \in next THEN d + 1 ELSE D[t]], d + 1)

RECURSIVE pathSteps(_, _)
pathSteps(cur, D) ==
  IF D[cur] <= 0 THEN <<>>
  ELSE LET i == CHOOSE j \in 1 .. Len(SURROUND_OFFSETS) :
                  /\ tagAt(D, cur[1] + SURROUND_OFFSETS[j][1],
                               cur[2] + SURROUND_OFFSETS[j][2]) = D[cur] - 1
                  /\ \A k \in 1 .. j - 1 :
                       tagAt(D, cur[1] + SURROUND_OFFSETS[k][1],
                                cur[2] + SURROUND_OFFSETS[k][2]) # D[cur] - 1
           next == <<cur[1] + SURROUND_OFFSETS[i][1], cur[2] + SURROUND_OFFSETS[i][2]>>
       IN <<next>> \o pathSteps(next, D)

findPath(walls, from, to, range) ==
  LET open == (Tiles \ walls) \cup {from}
      goal == {t \in open : inRangeTo(t, to, range)}
      D == pathDistances(open, goal, [t \in Tiles |-> IF t \in goal THEN 0 ELSE -1], 0)
  IN IF from \in Tiles THEN pathSteps(from, D) ELSE <<>>

\* for (const p of path) if (!built[p.x][p.y]) { road.push; built = true }
\* over path[1 .. n]: st = [layout, built].
RECURSIVE roadTiles(_, _, _, _)
roadTiles(st, path, i, n) ==
  IF i > n THEN st
  ELSE IF path[i] \notin st.built
       THEN roadTiles([layout |-> [st.layout EXCEPT !.road = Append(@, path[i])],
                       built |-> st.built \cup {path[i]}], path, i + 1, n)
       ELSE roadTiles(st, path, i + 1, n)

\* The first neighbour of the container, in offset order, that passes the
\* test of a link loop of placeContainer and is not built; <<>> when none.
RECURSIVE firstLinkTile(_, _, _, _, _)
firstLinkTile(containerPos, strict, built, walls, i) ==
  IF i > Len(SURROUND_OFFSETS) THEN <<>>
  ELSE LET lx == containerPos[1] + SURROUND_OFFSETS[i][1]
           ly == containerPos[2] + SURROUND_OFFSETS[i][2]
           blocked == IF strict THEN isNearWallOrEdgePure(lx, ly, walls)
                                ELSE isOnWallOrEdgePure(lx, ly, walls)
       IN IF ~ blocked /\ <<lx, ly>> \notin built
          THEN <<lx, ly>>
          ELSE firstLinkTile(containerPos, strict, built, walls, i + 1)

\* The link placeContainer places next to the container: the first loop's
\* tile, else the second loop's, else none.
linkTile(containerPos, built, walls) ==
  LET first == firstLinkTile(containerPos, TRUE, built, walls, 1)
  IN IF first # <<>> THEN first
     ELSE firstLinkTile(containerPos, FALSE, built, walls, 1)

\* ------------------------------------------------------------------ inputs
Mid == ROOM_SIZE \div 2
EdgeTiles == {t \in Tiles : t[1] = 0 \/ t[2] = 0
                            \/ t[1] = ROOM_MAX_INDEX \/ t[2] = ROOM_MAX_INDEX}

\* Rooms (sets of wall tiles): no wall at all; a corridor (walls except the
\* middle row); an edge that is all wall; an edge that is wall but for one
\* exit; and that room with a wall across it that leaves a one-tile gap.
OpenRoom == {}
CorridorRoom == {t \in Tiles : t[2] # Mid}
ClosedRoom == EdgeTiles
OneExitRoom == EdgeTiles \ {<<0, Mid>>}
ChokeRoom == OneExitRoom \cup {t \in Tiles : t[1] = Mid - 1 /\ t[2] # Mid}
BaseTerrains == {OpenRoom, CorridorRoom, ClosedRoom, OneExitRoom, ChokeRoom}

RECURSIVE SubsetsUpTo(_, _)
SubsetsUpTo(S, n) ==
  IF n = 0 THEN {{}}
  ELSE LET smaller == SubsetsUpTo(S, n - 1)
       IN smaller \cup {A \cup {t} : A \in smaller, t \in S}

\* A base room with up to MaxWalls tiles of the middle row and column
\* flipped (a wall opened, an open tile walled).
FlipTiles == {t \in Tiles : t[1] = Mid \/ t[2] = Mid}
Flip(base, F) == (base \ F) \cup (F \ base)
Terrains == {Flip(base, F) : base \in BaseTerrains, F \in SubsetsUpTo(FlipTiles, MaxWalls)}

\* The tiles of S as a list in vertex order.
RECURSIVE SortedSeq(_)
SortedSeq(S) ==
  IF S = {} THEN <<>>
  ELSE LET t == CHOOSE a \in S :
                  \A c \in S : positionToVertex(a[1], a[2]) <= positionToVertex(c[1], c[2])
       IN <<t>> \o SortedSeq(S \ {t})

\* Protected coordinates: up to MaxCoords of the centre tile, three of its
\* straight neighbours and a tile next to the room's edge.  getCutTiles reads
\* coords only to tag tiles, so the order of the list does not matter and
\* one order is drawn.
ProtectTiles == {<<Mid, Mid>>, <<Mid - 1, Mid>>, <<Mid + 1, Mid>>,
                 <<Mid, Mid - 1>>, <<1, Mid>>}
CoordLists == {SortedSeq(S) : S \in SubsetsUpTo(ProtectTiles, MaxCoords) \ {{}}}

SubBounds == [x1 |-> 1, y1 |-> 1, x2 |-> ROOM_MAX_INDEX - 1, y2 |-> ROOM_MAX_INDEX - 1]
HalfBounds == [x1 |-> 0, y1 |-> 0, x2 |-> ROOM_MAX_INDEX - 1, y2 |-> ROOM_MAX_INDEX - 1]
InvalidBounds ==
  {[x1 |-> Mid, y1 |-> 0, x2 |-> Mid, y2 |-> ROOM_MAX_INDEX],
   [x1 |-> 0, y1 |-> Mid + 1, x2 |-> ROOM_MAX_INDEX, y2 |-> Mid],
   [x1 |-> -1, y1 |-> 0, x2 |-> ROOM_MAX_INDEX, y2 |-> ROOM_MAX_INDEX],
   [x1 |-> 0, y1 |-> 0, x2 |-> ROOM_MAX_INDEX, y2 |-> ROOM_SIZE]}
BoundsChoices == {FullBounds, SubBounds, HalfBounds} \cup InvalidBounds

\* Inputs of calculate: one or two positions to protect (near a corner, at
\* the centre, next to the far edge) and a controller position.
ProtectedPosChoices ==
  {<<<<1, 1>>>>, <<<<Mid, Mid>>>>, <<<<ROOM_MAX_INDEX - 1, Mid>>>>,
   <<<<1, 1>>, <<ROOM_MAX_INDEX - 1, ROOM_MAX_INDEX - 1>>>>}
ControllerPosChoices == {<<Mid, 1>>, <<ROOM_MAX_INDEX - 1, ROOM_MAX_INDEX - 2>>}

\* Inputs of buildLayout: the rooms above, one or two sources, a mineral, a
\* controller, and the tiles where room.lookAt finds a structure.
LayoutTerrains == Terrains
SourceChoices == {<<<<1, 1>>>>, <<<<1, 1>>, <<ROOM_MAX_INDEX - 1, 1>>>>}
MineralChoices == {<<ROOM_MAX_INDEX - 1, ROOM_MAX_INDEX - 1>>}
ControllerChoices == {<<0, Mid>>, <<1, ROOM_MAX_INDEX - 1>>}
OccupiedChoices == {{}, {<<Mid, Mid>>}}

\* ------------------------------------------------------------------- state
VARIABLES terrain, coords, bounds, pc, roomArray, edges, level, count,
          returnValue, cutVertices, positions,
          caller, protectedPos, controllerPos, calcRoomArray, costMatrix,
          roomExists, sources, mineral, controller, occupied, withIds,
          layout, built, centers, storagePos, round, cursor, roomMemory,
          result, threw, call, ret

vars == <<terrain, coords, bounds, pc, roomArray, edges, level, count,
          returnValue, cutVertices, positions,
          caller, protectedPos, controllerPos, calcRoomArray, costMatrix,
          roomExists, sources, mineral, controller, occupied, withIds,
          layout, built, centers, storagePos, round, cursor, roomMemory,
          result, threw, call, ret>>

\* The variables of getCutTiles.
cutVars == <<coords, bounds, roomArray, edges, level, count, returnValue,
             cutVertices, positions>>

\* The inputs of buildLayout, and its locals, memory bag and result.
layoutInputs == <<roomExists, sources, mineral, controller, occupied, withIds>>
layoutVars == <<layout, built, centers, storagePos, round, cursor, roomMemory,
                result, threw>>

\* The variables of calculate outside its call of getCutTiles.
calcVars == <<caller, protectedPos, controllerPos, calcRoomArray, costMatrix>>

\* A direct call of one of the exported pure functions: its name and
\* arguments, and what it returned.
pureVars == <<call, ret>>

NoValue == <<>>

InitGraphState ==
  /\ roomArray = NoValue
  /\ edges = NoValue
  /\ level = NoValue
  /\ count = NoValue
  /\ returnValue = 0
  /\ cutVertices = <<>>
  /\ positions = <<>>

NoLayoutCall ==
  /\ roomExists = FALSE /\ sources = <<>> /\ mineral = <<>> /\ controller = <<>>
  /\ occupied = {} /\ withIds = FALSE
  /\ layout = NoValue /\ built = {} /\ centers = <<>> /\ storagePos = <<>>
  /\ round = 0 /\ cursor = 0 /\ roomMemory = <<>>
  /\ result = NoValue /\ threw = FALSE

\* Either getCutTiles(roomname, coords, bounds) is called, or
\* calculate(roomname, protectedPos, controllerPos), which calls getCutTiles
\* with the default (full-room) bounds.
Init ==
  /\ terrain \in Terrains
  /\ InitGraphState
  /\ NoLayoutCall
  /\ call = NoValue /\ ret = NoValue
  /\ calcRoomArray = NoValue
  /\ costMatrix = NoValue
  /\ \/ /\ caller = "getCutTiles"
        /\ coords \in CoordLists
        /\ bounds \in BoundsChoices
        /\ protectedPos = <<>>
        /\ controllerPos = <<>>
        /\ pc = "createGraph"
     \/ /\ caller = "calculate"
        /\ protectedPos \in ProtectedPosChoices
        /\ controllerPos \in ControllerPosChoices
        /\ coords = <<>>
        /\ bounds = FullBounds
        /\ pc = "calculate"

\* Where getCutTiles returns to.
returnTo == IF caller = "calculate" THEN "markExposed" ELSE "done"

\* calculate up to its call of getCutTiles: the grid, the expansion of the
\* protected positions and the controller's neighbours.
Calculate ==
  /\ pc = "calculate"
  /\ calcRoomArray' = createRoom2DArrayFromTerrain(terrain, FullBounds)
  /\ coords' = expandedProtectedPos(protectedPos, controllerPos)
  /\ pc' = "createGraph"
  /\ UNCHANGED <<terrain, bounds, roomArray, edges, level, count, returnValue,
                 cutVertices, positions, caller, protectedPos, controllerPos,
                 costMatrix>>
  /\ UNCHANGED <<layoutInputs, layoutVars, pureVars>>

\* calculate after getCutTiles: ramparts, exposure flood, cost matrix.
MarkExposed ==
  /\ pc = "markExposed"
  /\ calcRoomArray' = exposedRoom(calcRoomArray, positions)
  /\ costMatrix' = costMatrixOf(calcRoomArray')
  /\ pc' = "done"
  /\ UNCHANGED <<terrain, coords, bounds, roomArray, edges, level, count,
                 returnValue, cutVertices, positions, caller, protectedPos,
                 controllerPos>>
  /\ UNCHANGED <<layoutInputs, layoutVars, pureVars>>

\* createGraph: null for invalid bounds (getCutTiles then returns []), else
\* the classified grid with the protected tiles and the graph built from it.
CreateGraph ==
  /\ pc = "createGraph"
  /\ IF ~ validBounds(bounds)
     THEN /\ pc' = returnTo
          /\ UNCHANGED <<roomArray, edges>>
     ELSE /\ roomArray' = graphRoomArray(terrain, coords, bounds)
          /\ edges' = graphLoop(emptyGraph, roomArray', 0)
          /\ pc' = "bfs"
  /\ UNCHANGED <<terrain, coords, bounds, level, count, returnValue,
                 cutVertices, positions>>
  /\ UNCHANGED <<calcVars, layoutInputs, layoutVars, pureVars>>

\* calcMinCut: one evaluation of the while condition, this.bfs(s, t); when a
\* path exists the cursors are zeroed.
Bfs ==
  /\ pc = "bfs"
  /\ level' = bfs(edges, SOURCE_VERTEX, SINK_VERTEX)
  /\ IF level'[SINK_VERTEX] >= 0
     THEN /\ count' = [u \in 0 .. GRAPH_VERTEX_COUNT |-> 0]
          /\ pc' = "dfsFlow"
     ELSE /\ pc' = "bfsTheCut"
          /\ UNCHANGED count
  /\ UNCHANGED <<terrain, coords, bounds, roomArray, edges, returnValue,
                 cutVertices, positions>>
  /\ UNCHANGED <<calcVars, layoutInputs, layoutVars, pureVars>>

\* calcMinCut: one pass of the do-while, a top-level dfsFlow call.
DfsFlow ==
  /\ pc = "dfsFlow"
  /\ LET res == dfsFlow(edges, level, SOURCE_VERTEX, infinity, SINK_VERTEX, count)
     IN /\ edges' = res.edges
        /\ count' = res.count
        /\ returnValue' = IF res.flow > 0 THEN returnValue + res.flow ELSE returnValue
        /\ pc' = IF res.flow > 0 THEN "dfsFlow" ELSE "bfs"
  /\ UNCHANGED <<terrain, coords, bounds, roomArray, level, cutVertices, positions>>
  /\ UNCHANGED <<calcVars, layoutInputs, layoutVars, pureVars>>

\* getCutTiles after calcMinCut: bfsTheCut when count > 0, and the
\* conversion of its vertices to positions.
BfsTheCut ==
  /\ pc = "bfsTheCut"
  /\ IF returnValue > 0
     THEN /\ level' = cutSearch(edges, SOURCE_VERTEX).level
          /\ cutVertices' = bfsTheCut(edges, SOURCE_VERTEX)
     ELSE UNCHANGED <<level, cutVertices>>
  /\ positions' = toPositions(cutVertices', 1)
  /\ pc' = IF Len(positions') > 0 /\ ~ isWholeRoom(bounds)
           THEN "deleteTilesToDeadEnds" ELSE returnTo
  /\ UNCHANGED <<terrain, coords, bounds, roomArray, edges, count, returnValue>>
  /\ UNCHANGED <<calcVars, layoutInputs, layoutVars, pureVars>>

\* getCutTiles: deleteTilesToDeadEnds(roomname, positions), then return.
DeleteTilesToDeadEnds ==
  /\ pc = "deleteTilesToDeadEnds"
  /\ positions' = deleteTilesToDeadEnds(terrain, positions)
  /\ pc' = returnTo
  /\ UNCHANGED <<terrain, coords, bounds, roomArray, edges, level, count,
                 returnValue, cutVertices>>
  /\ UNCHANGED <<calcVars, layoutInputs, layoutVars, pureVars>>

Next ==
  \/ Calculate
  \/ CreateGraph
  \/ Bfs
  \/ DfsFlow
  \/ BfsTheCut
  \/ DeleteTilesToDeadEnds
  \/ MarkExposed

Spec == Init /\ [][Next]_vars

\* ------------------------------------------------------- buildLayout, steps
\* buildLayout(roomname, sources, mineral, controller, roomMemory) is called.
InitLayout ==
  /\ terrain \in LayoutTerrains
  /\ InitGraphState
  /\ call = NoValue /\ ret = NoValue
  /\ coords = <<>> /\ bounds = FullBounds
  /\ caller = "buildLayout"
  /\ protectedPos = <<>> /\ controllerPos = <<>>
  /\ calcRoomArray = NoValue /\ costMatrix = NoValue
  /\ roomExists \in BOOLEAN
  /\ sources \in SourceChoices
  /\ mineral \in MineralChoices
  /\ controller \in ControllerChoices
  /\ occupied \in OccupiedChoices
  /\ withIds \in BOOLEAN
  /\ layout = NoValue /\ built = {} /\ centers = <<>> /\ storagePos = <<>>
  /\ round = 0 /\ cursor = 0 /\ roomMemory = <<>>
  /\ result = NoValue /\ threw = FALSE
  /\ pc = "buildLayout"

\* The score fields of buildLayout (wallArr times WallScale).
sourceArr == sourceCosts(initArr(0), sources, terrain, 1)
mineralArr == getCostArrayPure(initArr(0), mineral[1], mineral[2], 2, terrain)
controllerArr == getCostArrayPure(initArr(0), controller[1], controller[2], 4, terrain)
storageArr == getCostArrayPure(initArr(0), storagePos[1], storagePos[2], 0, terrain)
wallArr == wallDistances(terrain)

\* The matrices handed to findMin, each times a positive factor that makes
\* its weights (0.25, 0.01, the wall field) whole numbers: 4 * WallScale for
\* the storage matrix, 100 for the others.
storageMatrix ==
  addArrays(<<multiplyArray(sourceArr, 4 * WallScale),
              multiplyArray(mineralArr, WallScale),
              multiplyArray(controllerArr, 4 * WallScale),
              multiplyArray(wallArr, -4)>>)
labMatrix ==
  addArrays(<<multiplyArray(mineralArr, 100), multiplyArray(storageArr, 500),
              sourceArr, controllerArr>>)
towerMatrix ==
  addArrays(<<mineralArr, multiplyArray(storageArr, 100), sourceArr, controllerArr>>)
extensionMatrix ==
  addArrays(<<mineralArr, multiplyArray(storageArr, 400),
              multiplyArray(sourceArr, 100), controllerArr>>)

\* The cells where canPut accepts the cluster.
canPutAt(cluster) ==
  {t \in Tiles : canPut(t[1], t[2], cluster, built, occupied, terrain)}

\* The state after a put: a throw leaves the callback.
Placed(res, next) ==
  /\ layout' = res.layout
  /\ built' = res.built
  /\ threw' = res.threw
  /\ pc' = IF res.threw THEN "thrown" ELSE next

\* The start of buildLayout: result is the empty record; a missing room
\* returns it; else the locals are set up and the extractor is recorded.
BuildLayout ==
  /\ pc = "buildLayout"
  /\ result' = emptyLayout
  /\ IF ~ roomExists
     THEN /\ pc' = "done"
          /\ UNCHANGED <<layout, built>>
     ELSE /\ layout' = [emptyLayout EXCEPT !.extractor = Append(@, mineral)]
          /\ built' = {}
          /\ pc' = "storage"
  /\ UNCHANGED <<terrain, cutVars, calcVars, pureVars, layoutInputs, centers, storagePos,
                 round, cursor, roomMemory, threw>>

\* Storage: findMin over the storage matrix, put(storageCluster).
PlaceStorage ==
  /\ pc = "storage"
  /\ LET xy == findMin(storageMatrix, canPutAt(storageCluster))
     IN /\ storagePos' = xy
        /\ Placed(put(xy[1], xy[2], layout, storageCluster, built), "lab")
  /\ UNCHANGED <<terrain, cutVars, calcVars, pureVars, layoutInputs, centers, round,
                 cursor, roomMemory, result>>

\* Labs: findMin, put(labCluster), centers = [[x, y]].
PlaceLab ==
  /\ pc = "lab"
  /\ LET xy == findMin(labMatrix, canPutAt(labCluster))
         res == put(xy[1], xy[2], layout, labCluster, built)
     IN /\ Placed(res, "tower")
        /\ centers' = IF res.threw THEN centers ELSE <<xy>>
  /\ round' = 0
  /\ UNCHANGED <<terrain, cutVars, calcVars, pureVars, layoutInputs, storagePos, cursor,
                 roomMemory, result>>

\* putTowerCluster()
PutTowerCluster ==
  /\ pc = "tower"
  /\ LET xy == findMin(towerMatrix, canPutAt(towerCluster))
     IN /\ centers' = Append(centers, xy)
        /\ Placed(put(xy[1], xy[2], layout, towerCluster, built), "extension")
  /\ UNCHANGED <<terrain, cutVars, calcVars, pureVars, layoutInputs, storagePos, round,
                 cursor, roomMemory, result>>

\* putExtensionCluster(), and the end of one pass of the for loop.
PutExtensionCluster ==
  /\ pc = "extension"
  /\ LET xy == findMin(extensionMatrix, canPutAt(extensionCluster))
     IN /\ centers' = Append(centers, xy)
        /\ Placed(put(xy[1], xy[2], layout, extensionCluster, built),
                  IF round + 1 < ClusterRounds THEN "tower" ELSE "observer")
  /\ round' = round + 1
  /\ UNCHANGED <<terrain, cutVars, calcVars, pureVars, layoutInputs, storagePos, cursor,
                 roomMemory, result>>

\* Observer: findMin over the matrix rebuilt with the tower weights, put.
PlaceObserver ==
  /\ pc = "observer"
  /\ LET xy == findMin(towerMatrix, canPutAt(observerCluster))
     IN /\ centers' = Append(centers, xy)
        /\ Placed(put(xy[1], xy[2], layout, observerCluster, built), "roads")
  /\ cursor' = 1
  /\ UNCHANGED <<terrain, cutVars, calcVars, pureVars, layoutInputs, storagePos, round,
                 roomMemory, result>>

\* One pass of the loop over centers: connectToStorage(center).
ConnectToStorage ==
  /\ pc = "roads"
  /\ LET center == centers[cursor]
         path == findPath(terrain, center, storagePos, 1)
         roads == roadTiles([layout |-> layout, built |-> built], path, 1, Len(path))
     IN /\ layout' = roads.layout
        /\ built' = roads.built
  /\ IF cursor < Len(centers)
     THEN cursor' = cursor + 1 /\ pc' = "roads"
     ELSE cursor' = 1 /\ pc' = "containers"
  /\ UNCHANGED <<terrain, cutVars, calcVars, pureVars, layoutInputs, centers, storagePos,
                 round, roomMemory, result, threw>>

\* The targets of placeContainer in call order: the controller, the
\* sources, the mineral; id is the target's id when it has one.
targets ==
  <<[pos |-> controller, kind |-> "controller", id |-> "controller"]>>
  \o [i \in 1 .. Len(sources) |->
        [pos |-> sources[i], kind |-> "source", id |-> "source" \o ToString(i)]]
  \o <<[pos |-> mineral, kind |-> "mineral", id |-> "mineral"]>>

\* roomMemory[id][key] = value, creating roomMemory[id] when it is missing.
memorySet(mem, id, key, value) ==
  LET old == IF id \in DOMAIN mem THEN mem[id] ELSE <<>>
      entry == [k \in DOMAIN old \cup {key} |-> IF k = key THEN value ELSE old[k]]
  IN [j \in DOMAIN mem \cup {id} |-> IF j = id THEN entry ELSE mem[j]]

\* placeContainer(target); after the last target, result = layout.  An
\* empty path makes path[path.length - 1] undefined, and reading its x throws.
PlaceContainer ==
  /\ pc = "containers"
  /\ LET target == targets[cursor]
         range == IF target.kind = "controller" THEN 3 ELSE 1
         path == findPath(terrain, storagePos, target.pos, range)
         roads == roadTiles([layout |-> layout, built |-> built], path, 1, Len(path) - 1)
         containerPos == path[Len(path)]
         layout1 == [roads.layout EXCEPT !.container = Append(@, containerPos)]
         built1 == roads.built \cup {containerPos}
         mem1 == IF withIds
                 THEN memorySet(roomMemory, target.id, "containerPos", serialize(containerPos))
                 ELSE roomMemory
         link == linkTile(containerPos, built1, terrain)
         linked == target.kind # "mineral" /\ link # <<>>
         layout2 == IF linked THEN [layout1 EXCEPT !.link = Append(@, link)] ELSE layout1
         mem2 == IF linked /\ withIds
                 THEN memorySet(mem1, target.id, "linkPos", serialize(link))
                 ELSE mem1
     IN IF Len(path) = 0
        THEN /\ threw' = TRUE
             /\ pc' = "thrown"
             /\ UNCHANGED <<layout, built, roomMemory, result, cursor>>
        ELSE /\ layout' = layout2
             /\ built' = built1
             /\ roomMemory' = mem2
             /\ threw' = FALSE
             /\ IF cursor < Len(targets)
                THEN cursor' = cursor + 1 /\ pc' = "containers" /\ UNCHANGED result
                ELSE cursor' = cursor /\ pc' = "done" /\ result' = layout2
  /\ UNCHANGED <<terrain, cutVars, calcVars, pureVars, layoutInputs, centers, storagePos, round>>

\* errorMapper(callback) when the callback threw: the error is caught and
\* logged, and buildLayout goes on to return result.
ErrorMapper ==
  /\ pc = "thrown"
  /\ pc' = "done"
  /\ UNCHANGED <<terrain, cutVars, calcVars, pureVars, layoutInputs, layoutVars>>

NextLayout ==
  \/ BuildLayout
  \/ PlaceStorage
  \/ PlaceLab
  \/ PutTowerCluster
  \/ PutExtensionCluster
  \/ PlaceObserver
  \/ ConnectToStorage
  \/ PlaceContainer
  \/ ErrorMapper

SpecLayout == InitLayout /\ [][NextLayout]_vars

\* ------------------------------------------------ the exported pure functions
MaxRange == 4

\* The direct calls drawn, with their arguments.
\*  - getCostArrayPure: seeds at an inner corner, the centre, an edge tile
\*    and the far corner; ranges 0 .. MaxRange; a cost array that is fresh,
\*    or one whose cells all differ from any distance.
\*  - canPutPure: positions on, next to and just outside the room's edge and
\*    at its centre; the clusters of buildLayout; nothing or two tiles built.
\*  - findMin: a matrix that is constant, one that holds Number.MAX_VALUE
\*    everywhere, one that holds it everywhere but in three cells, a cone
\*    around the centre and a slope towards the far corner; predicates that
\*    hold nowhere, everywhere, everywhere but at (0, 0), and on a few cells.
\*  - createRoom2DArrayFromTerrain: bounds that createGraph accepts.
\*  - addArrays, multiplyArray: whole-number fields, small ones and ones at
\*    the end of the range where every whole number is a number of the
\*    program.
PureCalls ==
  LET seeds == {<<1, 1>>, <<Mid, Mid>>, <<0, Mid>>, <<ROOM_MAX_INDEX, ROOM_MAX_INDEX>>}
      prior == [t \in Tiles |-> 100 + positionToVertex(t[1], t[2])]
      putCoord == {-1, 0, 1, Mid, ROOM_MAX_INDEX - 1, ROOM_MAX_INDEX, ROOM_SIZE}
      clusters == {storageCluster, labCluster, towerCluster, extensionCluster,
                   observerCluster}
      sparse == [t \in Tiles |-> IF t = <<1, Mid>> THEN 2
                                 ELSE IF t \in {<<Mid, 1>>, <<Mid + 1, 0>>} THEN 1
                                 ELSE MAX_VALUE]
      cone == [t \in Tiles |-> Abs(t[1] - Mid) + Abs(t[2] - Mid)]
      slope == [t \in Tiles |-> 0 - (t[1] + t[2])]
      accepted == {{}, Tiles, Tiles \ {<<0, 0>>}, {<<Mid, Mid>>},
                   {<<1, ROOM_MAX_INDEX - 1>>, <<ROOM_MAX_INDEX - 1, 1>>},
                   {t \in Tiles : t[1] # Mid /\ t[2] # Mid /\ t # <<0, 0>>},
                   {<<2, 2>>, <<0, 1>>}}
      lowBounds == [x1 |-> 0, y1 |-> 2, x2 |-> ROOM_MAX_INDEX, y2 |-> ROOM_MAX_INDEX]
      ramp == [t \in Tiles |-> positionToVertex(t[1], t[2]) - ROOM_SIZE]
      fields == {initArr(0), initArr(1), initArr(-3), ramp, initArr(MAX_SAFE),
                 [t \in Tiles |-> IF t[1] = Mid THEN MAX_SAFE ELSE t[2]]}
  IN [fn : {"getCostArrayPure"}, walls : Terrains, costArr : {initArr(0), prior},
      start : seeds, maxRange : 0 .. MaxRange]
     \cup [fn : {"canPutPure"}, walls : Terrains, x : putCoord, y : putCoord,
           cluster : clusters, built : {{}, {<<Mid, Mid>>, <<1, 2>>}}]
     \cup [fn : {"findMin"}, walls : {OpenRoom},
           matrix : {initArr(0), initArr(MAX_VALUE), sparse, cone, slope},
           accepted : accepted]
     \cup [fn : {"createRoom2DArrayFromTerrain"}, walls : Terrains,
           bounds : {FullBounds, SubBounds, HalfBounds, lowBounds}]
     \cup [fn : {"vertexToPosition"}, walls : {OpenRoom},
           vertex : 0 .. (ROOM_SIZE * ROOM_SIZE - 1)]
     \cup [fn : {"positionToVertex"}, walls : {OpenRoom}, x : Coord, y : Coord]
     \cup [fn : {"addArrays"}, walls : {OpenRoom},
           arrays : fields \X fields \X fields]
     \cup [fn : {"multiplyArray"}, walls : {OpenRoom}, arr : fields,
           scalar : {1, -1, 2}]

\* One of the exported functions is called on its own.
InitPure ==
  /\ call \in PureCalls
  /\ terrain = call.walls
  /\ ret = NoValue
  /\ InitGraphState
  /\ NoLayoutCall
  /\ coords = <<>> /\ bounds = FullBounds
  /\ caller = call.fn
  /\ protectedPos = <<>> /\ controllerPos = <<>>
  /\ calcRoomArray = NoValue /\ costMatrix = NoValue
  /\ pc = "call"

\* The return of a direct call.
Returns(value) ==
  /\ ret' = value
  /\ pc' = "returned"
  /\ UNCHANGED <<terrain, call, cutVars, calcVars, layoutInputs, layoutVars>>

\* getCostArrayPure returns nothing: ret is costArr after the call.
GetCostArrayPure ==
  /\ pc = "call" /\ call.fn = "getCostArrayPure"
  /\ Returns(getCostArrayPure(call.costArr, call.start[1], call.start[2],
                              call.maxRange, terrain))

CanPutPure ==
  /\ pc = "call" /\ call.fn = "canPutPure"
  /\ Returns(canPutPure(call.x, call.y, call.cluster, call.built, terrain))

FindMin ==
  /\ pc = "call" /\ call.fn = "findMin"
  /\ Returns(findMin(call.matrix, call.accepted))

CreateRoom2DArrayFromTerrain ==
  /\ pc = "call" /\ call.fn = "createRoom2DArrayFromTerrain"
  /\ Returns(createRoom2DArrayFromTerrain(terrain, call.bounds))

VertexToPosition ==
  /\ pc = "call" /\ call.fn = "vertexToPosition"
  /\ Returns(vertexToPosition(call.vertex))

PositionToVertex ==
  /\ pc = "call" /\ call.fn = "positionToVertex"
  /\ Returns(positionToVertex(call.x, call.y))

\* addArrays(a, b, c)
AddArrays ==
  /\ pc = "call" /\ call.fn = "addArrays"
  /\ Returns(addArrays(call.arrays))

MultiplyArray ==
  /\ pc = "call" /\ call.fn = "multiplyArray"
  /\ Returns(multiplyArray(call.arr, call.scalar))

NextPure ==
  \/ GetCostArrayPure
  \/ CanPutPure
  \/ FindMin
  \/ CreateRoom2DArrayFromTerrain
  \/ VertexToPosition
  \/ PositionToVertex
  \/ AddArrays
  \/ MultiplyArray

SpecPure == InitPure /\ [][NextPure]_vars

\* ---------------------------------------------------------- claim vocabulary
Neighbors(t) ==
  {<<t[1] + SURROUND_OFFSETS[i][1], t[2] + SURROUND_OFFSETS[i][2]>> :
     i \in 1 .. Len(SURROUND_OFFSETS)} \cap Tiles

\* The tiles reachable from `from` by 8-connected steps inside `open`.
RECURSIVE Reach(_, _, _)
Reach(open, frontier, seen) ==
  IF frontier = {} THEN seen
  ELSE LET next == (UNION {Neighbors(t) : t \in frontier} \cap open) \ seen
       IN Reach(open, next, seen \cup next)

ReachFrom(open, from) == Reach(open, from \cap open, from \cap open)

SeqSet(q) == {q[i] : i \in 1 .. Len(q)}

\* The exits of the room: its non-wall edge tiles.
ExitTiles(walls) == EdgeTiles \ walls

TaggedTiles(room, tags) == {t \in Tiles : room[t] \in tags}

\* getCutTiles has returned from a call with valid bounds.
Returned == pc \in {"done", "markExposed"} /\ validBounds(bounds)

\* C1: once the returned tiles are impassable, no PROTECTED tile outside the
\* returned list reaches an exit (a non-wall room-edge tile) by 8-connected
\* steps over non-wall tiles; full room or sub-rectangle (after pruning).
C1_CutSeparates ==
  Returned =>
    LET open == Tiles \ (terrain \cup SeqSet(positions))
    IN ReachFrom(open, ExitTiles(terrain))
         \cap (TaggedTiles(roomArray, {PROTECTED}) \ SeqSet(positions)) = {}

\* C1 witness: a sub-rectangle call in which pruning dropped some tiles and
\* kept others, with a PROTECTED tile outside the returned list and an exit.
C1_Witness ==
  /\ Returned
  /\ ~ isWholeRoom(bounds)
  /\ Len(positions) > 0
  /\ Len(positions) < Len(cutVertices)
  /\ TaggedTiles(roomArray, {PROTECTED}) \ SeqSet(positions) # {}
  /\ ExitTiles(terrain) # {}

\* S blocks every 8-connected path over NORMAL/PROTECTED tiles from a
\* PROTECTED tile to a TO_EXIT tile.
Blocks(room, S) ==
  LET open == TaggedTiles(room, {NORMAL, PROTECTED}) \ S
      inside == ReachFrom(open, TaggedTiles(room, {PROTECTED}))
  IN \A t \in inside : Neighbors(t) \cap TaggedTiles(room, {TO_EXIT}) = {}

\* C2: with full-room bounds the returned list is a minimum cut: it blocks
\* every path from a PROTECTED tile to a TO_EXIT tile, and no set of fewer
\* NORMAL/PROTECTED tiles does.
C2_MinimumCut ==
  (pc = "done" /\ caller = "getCutTiles" /\ isWholeRoom(bounds)) =>
    /\ Blocks(roomArray, SeqSet(positions))
    /\ Cardinality(SeqSet(positions)) = Len(positions)
    /\ IF Len(positions) = 0 THEN TRUE
       ELSE \A S \in SubsetsUpTo(TaggedTiles(roomArray, {NORMAL, PROTECTED}),
                                 Len(positions) - 1) :
              ~ Blocks(roomArray, S)

\* C2 witness: a full-room call whose cut is smaller than the set of
\* protected tiles and holds a tile that is not protected (a choke point).
C2_Witness ==
  /\ pc = "done" /\ caller = "getCutTiles" /\ isWholeRoom(bounds)
  /\ Len(positions) > 0
  /\ Len(positions) < Cardinality(TaggedTiles(roomArray, {PROTECTED}))
  /\ \E i \in 1 .. Len(positions) : roomArray[positions[i]] = NORMAL

\* C3 (as stated): for every valid bounds the number of tiles returned
\* equals the value calcMinCut computed.
C3_CountEqualsFlow ==
  Returned => Len(positions) = returnValue

\* C3 (amended): bfsTheCut yields as many tiles as calcMinCut's value; the
\* returned list has that many with full-room bounds, and at most that many
\* with a sub-rectangle, where deleteTilesToDeadEnds may drop tiles.
C3_CountAtMostFlow ==
  Returned =>
    /\ Len(cutVertices) = returnValue
    /\ Len(positions) <= returnValue
    /\ isWholeRoom(bounds) => Len(positions) = returnValue

\* C3 witness: a call with a positive flow that returns fewer tiles.
C3_Witness ==
  Returned /\ returnValue > 0 /\ Len(positions) < returnValue

CentreCall ==
  /\ pc = "done"
  /\ caller = "getCutTiles"
  /\ terrain = OpenRoom
  /\ bounds = FullBounds
  /\ coords = <<<<Mid, Mid>>>>

RECURSIVE Ring(_)
Ring(i) ==
  IF i > Len(SURROUND_OFFSETS) THEN {}
  ELSE {<<Mid + SURROUND_OFFSETS[i][1], Mid + SURROUND_OFFSETS[i][2]>>} \cup Ring(i + 1)

C6_NotNearExit ==
  Returned =>
    \A i \in 1 .. Len(positions) :
      /\ createRoom2DArrayFromTerrain(terrain, bounds)[positions[i]] \notin {TO_EXIT, EXIT}
      /\ Neighbors(positions[i]) \cap ExitTiles(terrain) = {}

\* C6 witness: a returned tile in the column next to the room's edge, in a
\* room that has an exit.
C6_Witness ==
  /\ Returned
  /\ ExitTiles(terrain) # {}
  /\ \E i \in 1 .. Len(positions) : positions[i][1] = 1

\* Invalid bounds as the interface states them: x1 >= x2, y1 >= y2, or a
\* coordinate outside [0, 49].
InvalidBoundsStated(b) ==
  \/ b.x1 >= b.x2
  \/ b.y1 >= b.y2
  \/ \E c \in {b.x1, b.y1, b.x2, b.y2} : c \notin 0 .. ROOM_MAX_INDEX

\* C8: with invalid bounds getCutTiles returns the empty list, and no grid,
\* graph, max-flow, cut search or pruning is ever run.
C8_InvalidBoundsEmpty ==
  InvalidBoundsStated(bounds) =>
    /\ pc \in {"createGraph", "done"}
    /\ positions = <<>>
    /\ roomArray = NoValue /\ edges = NoValue
    /\ level = NoValue /\ count = NoValue
    /\ returnValue = 0 /\ cutVertices = <<>>

\* C8 witness: a call with x1 = x2 has returned.
C8_Witness ==
  pc = "done" /\ caller = "getCutTiles" /\ bounds.x1 = bounds.x2 /\ positions = <<>>

\* C7: in the cost matrix calculate returns, every tile createGraph tagged
\* PROTECTED that is not a returned rampart tile has cost 0: the exposure
\* flood from the EXIT tiles does not reach it.
C7_ProtectedNotExposed ==
  (pc = "done" /\ caller = "calculate") =>
    \A t \in TaggedTiles(roomArray, {PROTECTED}) \ SeqSet(positions) :
      costMatrix[t] = 0 /\ calcRoomArray[t] # EXPOSED

\* C7 witness: calculate has returned ramparts, a protected tile lies behind
\* them, and the flood has marked a walkable inner tile as exposed.
C7_Witness ==
  /\ pc = "done" /\ caller = "calculate"
  /\ Len(positions) > 0
  /\ TaggedTiles(roomArray, {PROTECTED}) \ SeqSet(positions) # {}
  /\ \E t \in Tiles \ (EdgeTiles \cup terrain) : costMatrix[t] = 255

\* The placements the callback of buildLayout had committed to its layout:
\* all of them are in the record buildLayout returns, in the same order.
ResultHoldsLayout ==
  \A k \in LayoutKeys :
    /\ Len(result[k]) >= Len(layout[k])
    /\ SubSeq(result[k], 1, Len(layout[k])) = layout[k]

\* C9: when buildLayout meets an error after some placements were
\* committed, the record it returns contains every one of them.
C9_PartialLayoutReturned ==
  (pc = "done" /\ threw) => ResultHoldsLayout

\* A direct call of fn has returned.
ReturnedFrom(fn) == pc = "returned" /\ call.fn = fn

\* The tiles that a path of at most d 8-connected steps reaches from seed,
\* every tile of the path after the seed being a non-wall tile.
RECURSIVE Ball(_, _, _)
Ball(walls, seed, d) ==
  IF d <= 0 THEN {seed}
  ELSE LET B == Ball(walls, seed, d - 1)
       IN B \cup (UNION {Neighbors(t) : t \in B} \ walls)

\* The tiles whose shortest such path has exactly d steps.
AtDistance(walls, seed, d) == Ball(walls, seed, d) \ Ball(walls, seed, d - 1)

Chebyshev(a, b) ==
  IF Abs(a[1] - b[1]) > Abs(a[2] - b[2]) THEN Abs(a[1] - b[1]) ELSE Abs(a[2] - b[2])

\* C11: after getCostArrayPure(costArr, sx, sy, R, terrain) the seed holds 0
\* and every non-wall tile whose shortest 8-neighbour path from the seed over
\* non-wall tiles has d steps, 1 <= d <= R, holds exactly d.
C11_CostIsDistance ==
  ReturnedFrom("getCostArrayPure") =>
    /\ ret[call.start] = 0
    /\ \A d \in 1 .. call.maxRange :
         \A t \in AtDistance(terrain, call.start, d) : ret[t] = d

\* C11 witness: a call on an array of other values has returned, and a tile
\* within R that a wall forces a detour to holds its path length, which is
\* more than its distance in a straight line.
C11_Witness ==
  /\ ReturnedFrom("getCostArrayPure")
  /\ call.costArr # initArr(0)
  /\ \E d \in 2 .. call.maxRange :
       \E t \in AtDistance(terrain, call.start, d) :
         ret[t] = d /\ Chebyshev(t, call.start) < d

\* C12: getCostArrayPure leaves every cell other than the seed unchanged
\* when the cell is a wall tile, or its shortest non-wall 8-distance from
\* the seed is more than R, or no such path reaches it.
C12_FarCellsUnchanged ==
  ReturnedFrom("getCostArrayPure") =>
    \A t \in Tiles \ {call.start} :
      (t \in terrain \/ t \notin Ball(terrain, call.start, call.maxRange))
        => ret[t] = call.costArr[t]

\* C12 witness: a call with R >= 1 on a pre-filled array has returned; a
\* wall tile lies next to the seed, a non-wall tile lies further than R on a
\* path from the seed, both hold their old value, and a tile within R does
\* not.
C12_Witness ==
  /\ ReturnedFrom("getCostArrayPure")
  /\ call.maxRange >= 1
  /\ call.costArr # initArr(0)
  /\ \E t \in (Neighbors(call.start) \cap terrain) : ret[t] = call.costArr[t]
  /\ \E t \in Ball(terrain, call.start, ROOM_SIZE * ROOM_SIZE)
               \ Ball(terrain, call.start, call.maxRange) :
       ret[t] = call.costArr[t]
  /\ \E t \in AtDistance(terrain, call.start, 1) : ret[t] # call.costArr[t]

\* The absolute tiles of a cluster placed at (x, y).
ClusterTiles(x, y, cluster) ==
  UNION {{<<x + cluster[c].offsets[i][1], y + cluster[c].offsets[i][2]>> :
            i \in 1 .. Len(cluster[c].offsets)} : c \in 1 .. Len(cluster)}

\* C13: canPutPure(x, y, cluster, built, terrain) is true exactly when every
\* absolute tile of every structure of the cluster lies in the room, is not
\* marked built and is not a wall; one tile outside the room, on a wall or
\* on a built tile makes it false.
C13_CanPutIffFree ==
  ReturnedFrom("canPutPure") =>
    (ret <=> ClusterTiles(call.x, call.y, call.cluster)
               \subseteq ((Tiles \ call.built) \ terrain))

\* C13 witness: a cluster of several tiles was tried where all its tiles are
\* in the room and none is a wall, but one is built, and the answer is false.
C13_Witness ==
  /\ ReturnedFrom("canPutPure")
  /\ LET ts == ClusterTiles(call.x, call.y, call.cluster)
     IN /\ Cardinality(ts) > 2
        /\ ts \subseteq Tiles \ terrain
        /\ Cardinality(ts \cap call.built) = 1
  /\ ret = FALSE

\* a comes no later than b in the scan of findMin: x ascending, then y.
ScanLE(a, b) == a[1] < b[1] \/ (a[1] = b[1] /\ a[2] <= b[2])

\* C14: when some cell that satisfies the predicate holds less than the
\* sentinel Number.MAX_VALUE, findMin returns a cell that satisfies the
\* predicate, whose value is at most that of every such cell, and which is
\* the first of the minimal ones in scan order (x ascending, then y).
C14_FindMinFirstMinimum ==
  (/\ ReturnedFrom("findMin")
   /\ \E t \in call.accepted : call.matrix[t] < MAX_VALUE)
  => /\ ret \in call.accepted
     /\ \A t \in call.accepted :
          /\ call.matrix[ret] <= call.matrix[t]
          /\ call.matrix[t] = call.matrix[ret] => ScanLE(ret, t)

\* C14 witness: findMin has returned a cell other than (0, 0) while another
\* accepted cell holds the same minimum and has a smaller y but a larger x.
C14_Witness ==
  /\ ReturnedFrom("findMin")
  /\ ret # <<0, 0>>
  /\ call.matrix[ret] < MAX_VALUE
  /\ \E t \in call.accepted :
       call.matrix[t] = call.matrix[ret] /\ t[2] < ret[2] /\ t[1] > ret[1]

\* C15: when no cell satisfies the predicate, findMin returns (0, 0), the
\* same pair it returns for a true minimum at (0, 0); nothing in what it
\* returns tells the two apart and no error is raised.
C15_NoCandidateGivesOrigin ==
  (ReturnedFrom("findMin") /\ call.accepted = {}) => ret = <<0, 0>>

\* C15 witness: findMin has returned (0, 0) for a predicate that holds
\* nowhere, on a matrix whose smallest value is not at (0, 0).
C15_Witness ==
  /\ ReturnedFrom("findMin")
  /\ call.accepted = {}
  /\ \E t \in Tiles : call.matrix[t] < call.matrix[<<0, 0>>]
  /\ ret = <<0, 0>>

\* The tiles inside the bounds b.
InBounds(b) ==
  {t \in Tiles : t[1] >= b.x1 /\ t[1] <= b.x2 /\ t[2] >= b.y1 /\ t[2] <= b.y2}

\* C16: in the grid createRoom2DArrayFromTerrain returns, every wall tile
\* and every tile outside the bounds is tagged UNWALKABLE; the pass over the
\* tiles next to the exits retags none of them as TO_EXIT.
C16_WallsStayUnwalkable ==
  ReturnedFrom("createRoom2DArrayFromTerrain") =>
    \A t \in terrain \cup (Tiles \ InBounds(call.bounds)) : ret[t] = UNWALKABLE

\* The four corners of the room.
Corners == {0, ROOM_MAX_INDEX} \X {0, ROOM_MAX_INDEX}

\* C17: createRoom2DArrayFromTerrain tags as EXIT exactly the non-wall tiles
\* on the room's edge that lie inside the bounds; with full-room bounds each
\* corner that is not a wall is EXIT.
C17_ExitTilesExact ==
  ReturnedFrom("createRoom2DArrayFromTerrain") =>
    /\ TaggedTiles(ret, {EXIT}) = (EdgeTiles \ terrain) \cap InBounds(call.bounds)
    /\ call.bounds = FullBounds => \A t \in Corners \ terrain : ret[t] = EXIT

\* C17 witness: a call with bounds smaller than the room has returned; the
\* corner (0, 0) is EXIT, an edge tile inside the bounds is a wall, and a
\* non-wall edge tile outside the bounds is not EXIT.
C17_Witness ==
  /\ ReturnedFrom("createRoom2DArrayFromTerrain")
  /\ call.bounds # FullBounds
  /\ ret[<<0, 0>>] = EXIT
  /\ (EdgeTiles \cap terrain) \cap InBounds(call.bounds) # {}
  /\ \E t \in EdgeTiles \ terrain : ret[t] # EXIT

\* C18: vertexToPosition and positionToVertex are inverses of each other:
\* positionToVertex of the position of a vertex v in [0, ROOM_SIZE^2) is v,
\* and vertexToPosition of the vertex of (x, y) with x, y in the room is
\* (x, y).
C18_VertexPositionInverse ==
  /\ ReturnedFrom("vertexToPosition") =>
       positionToVertex(ret[1], ret[2]) = call.vertex
  /\ ReturnedFrom("positionToVertex") =>
       vertexToPosition(ret) = <<call.x, call.y>>

\* C18 witness: vertexToPosition has returned a position off the diagonal
\* and off the first row and column, and its vertex is the argument.
C18_Witness ==
  /\ ReturnedFrom("vertexToPosition")
  /\ ret[1] > 0 /\ ret[2] > 0 /\ ret[1] # ret[2]
  /\ ret \in Tiles
  /\ positionToVertex(ret[1], ret[2]) = call.vertex

\* The two groupings of a sum of three fields.
LeftFirst(a, b, c) == addArrays(<<addArrays(<<a, b>>), c>>)
RightFirst(a, b, c) == addArrays(<<a, addArrays(<<b, c>>)>>)

\* Every sum of entries of a, b and c stays in the range where each whole
\* number is a number of the program.
ExactSums(a, b, c) ==
  \A t \in Tiles : Abs(a[t]) + Abs(b[t]) + Abs(c[t]) <= MAX_SAFE

\* addArrays(a, b) = addArrays(b, a), and multiplyArray(a, 1) = a.
CommutesAndUnit ==
  /\ ReturnedFrom("addArrays") =>
       addArrays(<<call.arrays[1], call.arrays[2]>>)
         = addArrays(<<call.arrays[2], call.arrays[1]>>)
  /\ (ReturnedFrom("multiplyArray") /\ call.scalar = 1) => ret = call.arr

PlacedKeys == LayoutKeys \ {"extractor"}

\* Every tile in a structure list filled by a placement step is marked built.
PlacedTilesBuilt ==
  layout # NoValue =>
    \A k \in PlacedKeys : \A i \in 1 .. Len(layout[k]) : layout[k][i] \in built

\* C20: throughout buildLayout every tile a placement step has appended to a
\* structure list (cluster structures, roads, containers, links) is marked
\* built from that step on, and no built mark is ever cleared.
C20_PlacedStayBuilt ==
  [] PlacedTilesBuilt /\ [][built \subseteq built']_vars

\* C21: put skips a tile outside the room silently: no error is raised for
\* it and no coordinate outside the room is appended to a list of the layout.
C21_OutsideTileSkipped ==
  layout # NoValue =>
    /\ \A k \in PlacedKeys :
         \A i \in 1 .. Len(layout[k]) : layout[k][i] \in Tiles
    /\ built \subseteq Tiles

\* The edge stored at the (0-based) index i of the list of vertex a has its
\* partner where its v and r say, the partner points back to a with reverse
\* index i, and one of the two has a positive capacity and the other 0.
PartnerOf(E, a, i) ==
  LET e == E[a][i + 1]
  IN /\ e.v \in Vertices
     /\ e.r + 1 \in 1 .. Len(E[e.v])
     /\ LET p == E[e.v][e.r + 1]
        IN /\ p.v = a
           /\ p.r = i
           /\ \/ e.c > 0 /\ p.c = 0
              \/ e.c = 0 /\ p.c > 0

\* C22: in the graph that the addEdge calls of createGraph have built, and
\* in every later state of it, every stored edge has its reverse partner at
\* edges[e.v][e.r].
C22_ReversePartner ==
  edges # NoValue =>
    \A a \in Vertices : \A i \in 0 .. (Len(edges[a]) - 1) : PartnerOf(edges, a, i)

\* C22 witness: a graph with source, tile and sink edges, some of which
\* carry flow.
C22_Witness ==
  /\ edges # NoValue
  /\ Len(edges[SOURCE_VERTEX]) > 1
  /\ Len(edges[SINK_VERTEX]) > 1
  /\ \E a \in Vertices : \E i \in 1 .. Len(edges[a]) :
       edges[a][i].c = 1 /\ edges[a][i].f = 1

\* A phase of calcMinCut that follows an earlier one (level still holds the
\* levels of that phase) and finds the sink: the sink's level has grown.
SinkLevelRises ==
  (pc = "bfs" /\ level # NoValue /\ pc' = "dfsFlow") =>
    level'[SINK_VERTEX] > level[SINK_VERTEX]

\* A top-level dfsFlow call after which the do-while of calcMinCut goes
\* round once more has added to the running total.
FlowGrows ==
  (pc = "dfsFlow" /\ pc' = "dfsFlow") => returnValue' > returnValue

\* The two measures that the loops of calcMinCut increase are bounded: a
\* level by the number of vertices, the total by the number of tiles (each
\* unit of flow crosses the capacity-1 edge of a tile of its own).
PhaseBounds ==
  /\ level # NoValue => level[SINK_VERTEX] < GRAPH_VERTEX_COUNT
  /\ returnValue <= ROOM_SIZE * ROOM_SIZE

\* C23: calcMinCut returns on every graph of createGraph: every round of
\* its do-while adds to a bounded total, and from one phase to the next
\* phase that reaches the sink the sink's BFS level strictly increases,
\* below a bound.
C23_MinCutTerminates ==
  /\ [][SinkLevelRises /\ FlowGrows]_vars
  /\ [] PhaseBounds

\* C23 witness: a phase has reached the sink at a level above the level of
\* the first phase, which is the sink's level in the graph without flow.
C23_Witness ==
  /\ pc = "dfsFlow"
  /\ returnValue > 0
  /\ level[SINK_VERTEX] >
       bfs(graphLoop(emptyGraph, roomArray, 0), SOURCE_VERTEX, SINK_VERTEX)[SINK_VERTEX]

\* The flow over the forward edges (the ones with a capacity) that leave w,
\* from the i-th entry of w's list on.
RECURSIVE FlowOut(_, _, _)
FlowOut(E, w, i) ==
  IF i > Len(E[w]) THEN 0
  ELSE (IF E[w][i].c > 0 THEN E[w][i].f ELSE 0) + FlowOut(E, w, i + 1)

\* The flow over the forward edges that enter w: they are the partners of
\* the capacity-0 entries of w's list.
RECURSIVE FlowIn(_, _, _)
FlowIn(E, w, i) ==
  IF i > Len(E[w]) THEN 0
  ELSE (IF E[w][i].c = 0 THEN E[E[w][i].v][E[w][i].r + 1].f ELSE 0)
       + FlowIn(E, w, i + 1)

\* The stored flow is a valid s-t flow of value total.
ValidFlow(E, s, t, total) ==
  /\ \A a \in Vertices : \A i \in 1 .. Len(E[a]) :
       /\ E[a][i].f <= E[a][i].c
       /\ E[a][i].f = 0 - E[E[a][i].v][E[a][i].r + 1].f
  /\ \A w \in Vertices \ {s, t} : FlowIn(E, w, 1) = FlowOut(E, w, 1)
  /\ total = FlowOut(E, s, 1) - FlowIn(E, s, 1)

\* C24: before and after every top-level dfsFlow call of calcMinCut the
\* stored flow respects the capacities, is antisymmetric on every pair of
\* partner edges and is conserved at every vertex but the source and the
\* sink, and the running total is the net flow out of the source.
C24_ValidFlow ==
  edges # NoValue => ValidFlow(edges, SOURCE_VERTEX, SINK_VERTEX, returnValue)

\* C24 witness: dfsFlow calls have pushed two units, through tiles that are
\* not protected themselves.
C24_Witness ==
  /\ pc = "dfsFlow"
  /\ returnValue >= 2
  /\ \E t \in TaggedTiles(roomArray, {NORMAL}) :
       FlowOut(edges, positionToVertex(t[1], t[2]) + TOP_OFFSET, 1) = 1

\* The vertices that the residual graph (the edges with f < c) connects to
\* the vertices of seen.
RECURSIVE ResidualReach(_, _, _)
ResidualReach(E, frontier, seen) ==
  IF frontier = {} THEN seen
  ELSE LET next == {E[u][i].v : <<u, i>> \in
                      {<<u, i>> \in frontier \X (1 .. (2 * ROOM_SIZE * ROOM_SIZE)) :
                         i <= Len(E[u]) /\ E[u][i].f < E[u][i].c}} \ seen
       IN ResidualReach(E, next, seen \cup next)

\* The saturated edges with a capacity that lead from a vertex of R out of R,
\* as pairs of a vertex and an index in its list.
BlockingEdges(E, R) ==
  UNION {{<<a, i>> : i \in {i \in 1 .. Len(E[a]) :
                              /\ E[a][i].c > 0
                              /\ E[a][i].f = E[a][i].c
                              /\ E[a][i].v \notin R}} : a \in R}

\* bfsTheCut has been called (calcMinCut returned a positive value).
CutSearched ==
  /\ edges # NoValue
  /\ pc \in {"deleteTilesToDeadEnds", "markExposed", "done"}
  /\ returnValue > 0

\* C25: bfsTheCut(SOURCE) returns the source ends of exactly the saturated
\* edges with a capacity that lead from a vertex the residual graph reaches
\* from SOURCE to one it does not reach; each is the TOP vertex of an inner
\* tile tagged NORMAL or PROTECTED, and none is returned twice.
C25_CutVertices ==
  CutSearched =>
    LET R == ResidualReach(edges, {SOURCE_VERTEX}, {SOURCE_VERTEX})
        B == BlockingEdges(edges, R)
    IN /\ SeqSet(cutVertices) = {e[1] : e \in B}
       /\ Len(cutVertices) = Cardinality(B)
       /\ Len(cutVertices) = Cardinality(SeqSet(cutVertices))
       /\ \A v \in SeqSet(cutVertices) :
            /\ v \in 0 .. (ROOM_SIZE * ROOM_SIZE - 1)
            /\ vertexToPosition(v)[1] \in 1 .. (ROOM_MAX_INDEX - 1)
            /\ vertexToPosition(v)[2] \in 1 .. (ROOM_MAX_INDEX - 1)
            /\ roomArray[vertexToPosition(v)] \in {NORMAL, PROTECTED}

\* C25 witness: a cut through a tile that is not protected, with tiles
\* between the protected ones and the cut.
C25_Witness ==
  /\ CutSearched
  /\ Len(coords) = 2
  /\ \E v \in SeqSet(cutVertices) : roomArray[vertexToPosition(v)] = NORMAL
  /\ Cardinality(ResidualReach(edges, {SOURCE_VERTEX}, {SOURCE_VERTEX})) > 3

\* The tiles tagged TO_EXIT in the working grid of the pruning: the tiles
\* the classifier tagged TO_EXIT that are not cut tiles, and the NORMAL
\* tiles outside the cut that 8-connected steps over such tiles connect to
\* a TO_EXIT tile of column 1 or 48 or of row 1 or 48.
ToExitAfterFlood(walls, cut) ==
  LET room == createRoom2DArrayFromTerrain(walls, FullBounds)
      toExit == TaggedTiles(room, {TO_EXIT}) \ cut
      normal == TaggedTiles(room, {NORMAL}) \ cut
      inner == 1 .. (ROOM_MAX_INDEX - 1)
      seeds == {t \in toExit :
                  \/ t[1] \in {1, ROOM_MAX_INDEX - 1} /\ t[2] \in inner
                  \/ t[2] \in {1, ROOM_MAX_INDEX - 1} /\ t[1] \in inner}
  IN toExit \cup Reach(normal, seeds, seeds)

\* getCutTiles has returned from a call in which it pruned the cut.
Pruned ==
  /\ Returned
  /\ ~ isWholeRoom(bounds)
  /\ Len(cutVertices) > 0

\* C26: the pruned list is the input cut without the tiles that have no
\* neighbour tagged TO_EXIT after the flood fill, in the order of the input.
C26_PrunedSublist ==
  Pruned =>
    LET cut == toPositions(cutVertices, 1)
        toExit == ToExitAfterFlood(terrain, SeqSet(cut))
        retained(t) == Neighbors(t) \cap toExit # {}
    IN positions = SelectSeq(cut, retained)

\* C26 witness: of a cut of two tiles the second is kept and the first is
\* dropped.
C26_Witness ==
  /\ Pruned
  /\ Len(cutVertices) = 2
  /\ positions = <<vertexToPosition(cutVertices[2])>>

\* The non-wall tiles outside the cut that 8-connected steps over such tiles
\* connect to an exit of the room, the exits included.
ExitSide(walls, cut) ==
  ReachFrom(Tiles \ (walls \cup cut), ExitTiles(walls))

\* C27: after the pruning every retained cut tile has a neighbour that is a
\* non-wall tile which an exit really reaches over non-wall tiles outside
\* the cut, and a cut tile without such a neighbour is dropped.
C27_RetainedFaceExit ==
  Pruned =>
    LET cut == SeqSet(toPositions(cutVertices, 1))
        side == ExitSide(terrain, cut)
    IN \A t \in cut : (t \in SeqSet(positions)) <=> (Neighbors(t) \cap side # {})

\* The tiles of the room within Chebyshev distance d of a tile of the list pp.
Within(pp, d) ==
  {t \in Tiles : \E i \in 1 .. Len(pp) : Chebyshev(pp[i], t) <= d}

\* The list handed to getCutTiles holds every tile within distance 3 of a
\* protected tile once, walls included, and then the tiles around the
\* controller that lie in the room.
ExpandedList ==
  (caller = "calculate" /\ pc # "calculate") =>
    LET near == Within(protectedPos, ExpandLevels)
        k == Cardinality(near)
        around == Neighbors(controllerPos)
    IN /\ Len(coords) = k + Cardinality(around)
       /\ SeqSet(SubSeq(coords, 1, k)) = near
       /\ SeqSet(SubSeq(coords, k + 1, Len(coords))) = around

Placements(l) ==
  UNION {{<<k, i>> : i \in 1 .. Len(l[k])} : k \in PlacedKeys}

\* C29: in the layout of a buildLayout run that completes, no tile occurs
\* more than once across the structure lists.
C29_NoSharedTile ==
  (pc = "done" /\ ~ threw /\ result # NoValue) =>
    \A p, q \in Placements(result) :
      p # q => result[p[1]][p[2]] # result[q[1]][q[2]]

\* The tiles within non-wall 8-distance d of at least one source.
NearSource(d) ==
  UNION {Ball(terrain, sources[i], d) : i \in 1 .. Len(sources)}

\* C30: once buildLayout has seeded the source field from all sources,
\* every tile within non-wall 8-distance 3 of a source holds its distance
\* to the nearest source.
C30_NearestSource ==
  (roomExists /\ pc # "buildLayout") =>
    \A d \in 0 .. 3 :
      \A t \in NearSource(d) \cap Tiles :
        (d = 0 \/ t \notin NearSource(d - 1)) => sourceArr[t] = d
====
